---- MODULE Spec2Model ----
(***************************************************************************)
(* DNA motif analysis (main.py, analysis_engine.py).                       *)
(*                                                                         *)
(* Strings are sequences of one-character strings.  Python indices are     *)
(* 0-based, TLA+ sequences 1-based: s[i] in the code is s[i + 1] here.     *)
(* A call that can raise returns a record whose status is "ok" or "error". *)
(***************************************************************************)
EXTENDS Integers, Sequences, FiniteSets, TLC

VARIABLES
    m_sequence,      \* matcher: the sequence argument
    m_motif,         \* matcher: the motif argument
    m_positions,     \* matcher: outcome of iupac_find_positions
    m_count,         \* matcher: outcome of iupac_count
    c_seq_char,      \* matcher: the seq_char argument of matches_iupac
    c_motif_char,    \* matcher: the motif_char argument of matches_iupac
    c_match,         \* matcher: outcome of matches_iupac(seq_char, motif_char)
    c_swapped,       \* matcher: outcome of matches_iupac(motif_char, seq_char)
    l_lines,         \* loader: the lines of the file at path
    l_result,        \* loader: outcome of load_fasta
    e_sequences,     \* engine: the sequences argument, a dict in insertion order
    e_motifs,        \* engine: the motifs argument
    e_fasta_path,    \* engine: the fasta_path argument
    e_result,        \* engine: outcome of compute_analysis
    e_mode,          \* engine: the mode argument of the last call of matrix
    e_matrix,        \* engine: outcome of the last call of matrix
    e_matrix_calls,  \* engine: the number of calls of matrix on the result
    sequences,       \* DNAApp.sequences, a dict in insertion order
    sequences_source, \* the path load_fasta read self.sequences from
    current_fasta,   \* DNAApp.current_fasta
    motifs,          \* DNAApp.motifs
    analysis_result, \* DNAApp.analysis_result
    figures,         \* DNAApp.figures, the keys of the dict
    manager_open,    \* the window of open_motif_manager is shown
    normalization_mode, \* DNAApp.normalization_mode, the value of the StringVar
    selected_sequence,  \* DNAApp.selected_sequence
    selected_motif,     \* DNAApp.selected_motif
    viz_top,            \* DNAApp.viz_top, the heatmap shown
    close_barplot_btn,  \* DNAApp.close_barplot_btn is packed
    matcher_calls,   \* the number of calls of iupac_count the last handler made
    x_sep,           \* ExportTab.sep, the value of the StringVar
    x_mode,          \* ExportTab.mode
    x_layout,        \* ExportTab.layout
    x_rep_fmt,       \* ExportTab.rep_fmt
    x_rep_mode,      \* ExportTab.rep_mode
    x_rep_table,     \* ExportTab.rep_table
    x_call,          \* export: the function last called and its arguments
    x_out            \* export: what that call wrote, or the error it raised

vars == << m_sequence, m_motif, m_positions, m_count,
           c_seq_char, c_motif_char, c_match, c_swapped, l_lines, l_result,
           e_sequences, e_motifs, e_fasta_path, e_result, e_mode, e_matrix, e_matrix_calls,
           sequences, sequences_source, current_fasta, motifs, analysis_result, figures,
           manager_open, normalization_mode, selected_sequence, selected_motif, viz_top,
           close_barplot_btn, matcher_calls,
           x_sep, x_mode, x_layout, x_rep_fmt, x_rep_mode, x_rep_table, x_call, x_out >>
appVars == << sequences, sequences_source, current_fasta, motifs, analysis_result, figures,
              manager_open, normalization_mode, selected_sequence, selected_motif, viz_top,
              close_barplot_btn, matcher_calls >>
exportVars == << x_sep, x_mode, x_layout, x_rep_fmt, x_rep_mode, x_rep_table, x_call, x_out >>
engineVars == << e_sequences, e_motifs, e_fasta_path, e_result, e_mode, e_matrix, e_matrix_calls >>
matcherVars == << m_sequence, m_motif, m_positions, m_count,
                  c_seq_char, c_motif_char, c_match, c_swapped >>
loaderVars == << l_lines, l_result >>

\* ------------------------------------------------------------------------
\* Bounds
\* ------------------------------------------------------------------------
MaxSeqLen == 4
MaxMotifLen == 3
MaxLines == 4
MaxSeqs == 2
MaxMotifs == 2
MaxReferenceMotifs == 1
MaxMatrixCalls == 3

\* ------------------------------------------------------------------------
\* Strings
\* ------------------------------------------------------------------------
Pending == [status |-> "pending"]
Ok(v) == [status |-> "ok", val |-> v]
Err(msg, what) == [status |-> "error", msg |-> msg, what |-> what]
None == [none |-> TRUE]
Some(v) == [none |-> FALSE, val |-> v]

\* a component no operation of the specification at hand touches
MatcherIdle ==
    /\ m_sequence = <<>>
    /\ m_motif = <<>>
    /\ m_positions = Pending
    /\ m_count = Pending
    /\ c_seq_char = ""
    /\ c_motif_char = ""
    /\ c_match = Pending
    /\ c_swapped = Pending

LoaderIdle ==
    /\ l_lines = <<>>
    /\ l_result = Pending
EngineIdle ==
    /\ e_sequences = <<>>
    /\ e_motifs = <<>>
    /\ e_fasta_path = None
    /\ e_result = Pending
    /\ e_mode = None
    /\ e_matrix = Pending
    /\ e_matrix_calls = 0
AppIdle ==
    /\ sequences = <<>>
    /\ sequences_source = None
    /\ current_fasta = None
    /\ motifs = <<>>
    /\ analysis_result = None
    /\ figures = {}
    /\ manager_open = FALSE
    /\ normalization_mode = << "r", "a", "w" >>
    /\ selected_sequence = None
    /\ selected_motif = None
    /\ viz_top = None
    /\ close_barplot_btn = FALSE
    /\ matcher_calls = 0

\* the export tab as _build_ui leaves it, nothing exported
ExportIdle ==
    /\ x_sep = ";"
    /\ x_mode = << "r", "a", "w" >>
    /\ x_layout = "wide"
    /\ x_rep_fmt = "txt"
    /\ x_rep_mode = << "r", "a", "w" >>
    /\ x_rep_table = TRUE
    /\ x_call = None
    /\ x_out = Pending

\* all sequences over S of length at most n
RECURSIVE SeqsUpTo(_, _)
SeqsUpTo(S, n) ==
    IF n = 0 THEN { <<>> }
    ELSE LET shorter == SeqsUpTo(S, n - 1)
         IN  shorter \cup { Append(s, c) : s \in { t \in shorter : Len(t) = n - 1 }, c \in S }

\* str.upper() on one character
Lowercase == << "a", "b", "c", "d", "e", "f", "g", "h", "i", "j", "k", "l", "m",
               "n", "o", "p", "q", "r", "s", "t", "u", "v", "w", "x", "y", "z" >>
Uppercase == << "A", "B", "C", "D", "E", "F", "G", "H", "I", "J", "K", "L", "M",
               "N", "O", "P", "Q", "R", "S", "T", "U", "V", "W", "X", "Y", "Z" >>
upper(c) ==
    IF \E k \in 1..Len(Lowercase) : Lowercase[k] = c
    THEN Uppercase[CHOOSE k \in 1..Len(Lowercase) : Lowercase[k] = c]
    ELSE c

\* str.lower() on one character
lower(c) ==
    IF \E k \in 1..Len(Uppercase) : Uppercase[k] = c
    THEN Lowercase[CHOOSE k \in 1..Len(Uppercase) : Uppercase[k] = c]
    ELSE c

\* str.lower()
StrLower(s) == [k \in 1..Len(s) |-> lower(s[k])]

\* str.upper()
StrUpper(s) == [k \in 1..Len(s) |-> upper(s[k])]

\* str.replace(a, b) for one-character a and b
StrReplace(s, a, b) == [k \in 1..Len(s) |-> IF s[k] = a THEN b ELSE s[k]]

\* str.replace(a, "") for a one-character a
StrRemove(s, a) == SelectSeq(s, LAMBDA c : c # a)

\* ------------------------------------------------------------------------
\* IUPAC matcher (main.py)
\* ------------------------------------------------------------------------
IUPAC_MASK ==
    [c \in {"A", "C", "G", "T", "U", "R", "Y", "S", "W", "K", "M", "B", "D", "H", "V", "N"} |->
        CASE c = "A" -> 1  [] c = "C" -> 2  [] c = "G" -> 4  [] c = "T" -> 8
          [] c = "U" -> 8  [] c = "R" -> 5  [] c = "Y" -> 10 [] c = "S" -> 6
          [] c = "W" -> 9  [] c = "K" -> 12 [] c = "M" -> 3  [] c = "B" -> 14
          [] c = "D" -> 13 [] c = "H" -> 11 [] c = "V" -> 7  [] c = "N" -> 15]

\* the & operator on non-negative integers
RECURSIVE BitAnd(_, _)
BitAnd(a, b) ==
    IF a = 0 \/ b = 0 THEN 0
    ELSE (a % 2) * (b % 2) + 2 * BitAnd(a \div 2, b \div 2)

\* a match relation that asks for every base of the sequence symbol to be
\* one of the motif symbol
matches_iupac_subset(seq_char, motif_char) ==
    IF upper(seq_char) \in DOMAIN IUPAC_MASK /\ upper(motif_char) \in DOMAIN IUPAC_MASK
    THEN BitAnd(IUPAC_MASK[upper(seq_char)], IUPAC_MASK[upper(motif_char)])
           = IUPAC_MASK[upper(seq_char)]
    ELSE FALSE

\* a KeyError in either lookup gives False
matches_iupac(seq_char, motif_char) ==
    IF upper(seq_char) \in DOMAIN IUPAC_MASK /\ upper(motif_char) \in DOMAIN IUPAC_MASK
    THEN BitAnd(IUPAC_MASK[upper(seq_char)], IUPAC_MASK[upper(motif_char)]) # 0
    ELSE FALSE

\* the inner loop of iupac_find_positions from index j on: False at the
\* first position that does not match
RECURSIVE FindMatchAt(_, _, _, _)
FindMatchAt(seq, mot, i, j) ==
    IF j >= Len(mot) THEN TRUE
    ELSE IF ~matches_iupac(seq[i + j + 1], mot[j + 1]) THEN FALSE
    ELSE FindMatchAt(seq, mot, i, j + 1)

\* a scan that resumes after the end of a match
RECURSIVE FindLoopSkip(_, _, _, _)
FindLoopSkip(seq, mot, i, positions) ==
    IF i >= Len(seq) - Len(mot) + 1 THEN positions
    ELSE IF FindMatchAt(seq, mot, i, 0)
         THEN FindLoopSkip(seq, mot, i + (IF Len(mot) > 0 THEN Len(mot) ELSE 1), Append(positions, i))
         ELSE FindLoopSkip(seq, mot, i + 1, positions)

\* the outer loop of iupac_find_positions, for i in range(L - mL + 1), from i on
RECURSIVE FindLoop(_, _, _, _)
FindLoop(seq, mot, i, positions) ==
    IF i >= Len(seq) - Len(mot) + 1 THEN positions
    ELSE FindLoop(seq, mot, i + 1,
                  IF FindMatchAt(seq, mot, i, 0) THEN Append(positions, i) ELSE positions)

\* iupac_find_positions has no raise: every call returns a list
iupac_find_positions(sequence, motif) ==
    LET seq == StrReplace(StrUpper(sequence), "U", "T")
        mot == StrReplace(StrUpper(motif), "U", "T")
    IN  Ok(FindLoop(seq, mot, 0, <<>>))

\* the first character of s that is no key of the mask table, "" if none
FirstUnknown(s) ==
    LET bad == { k \in 1..Len(s) : s[k] \notin DOMAIN IUPAC_MASK }
    IN  IF bad = {} THEN "" ELSE s[CHOOSE k \in bad : \A k2 \in bad : k <= k2]

\* the inner loop of iupac_count from index j on
RECURSIVE CountMatchAt(_, _, _, _)
CountMatchAt(seq_masks, mot_masks, i, j) ==
    IF j >= Len(mot_masks) THEN TRUE
    ELSE IF BitAnd(seq_masks[i + j + 1], mot_masks[j + 1]) = 0 THEN FALSE
    ELSE CountMatchAt(seq_masks, mot_masks, i, j + 1)

\* the outer loop of iupac_count, for i in range(n - m + 1), from i on
RECURSIVE CountLoop(_, _, _, _)
CountLoop(seq_masks, mot_masks, i, count) ==
    IF i >= Len(seq_masks) - Len(mot_masks) + 1 THEN count
    ELSE CountLoop(seq_masks, mot_masks, i + 1,
                   IF CountMatchAt(seq_masks, mot_masks, i, 0) THEN count + 1 ELSE count)

iupac_count(sequence, motif) ==
    IF sequence = <<>> \/ motif = <<>> THEN Ok(0)
    ELSE
    LET seq == StrReplace(StrUpper(sequence), "U", "T")
        mot == StrReplace(StrUpper(motif), "U", "T")
    IN  IF FirstUnknown(seq) # "" THEN Err("Nieznany symbol IUPAC", FirstUnknown(seq))
        ELSE IF FirstUnknown(mot) # "" THEN Err("Nieznany symbol IUPAC", FirstUnknown(mot))
        ELSE
        LET seq_masks == [k \in 1..Len(seq) |-> IUPAC_MASK[seq[k]]]
            mot_masks == [k \in 1..Len(mot) |-> IUPAC_MASK[mot[k]]]
        IN  IF Len(mot_masks) > Len(seq_masks) THEN Ok(0)
            ELSE Ok(CountLoop(seq_masks, mot_masks, 0, 0))

\* ------------------------------------------------------------------------
\* FASTA loader (main.py)
\* ------------------------------------------------------------------------
\* characters str.strip() removes: space, tab, form feed
IsSpace(c) == c \in {" ", "\t", "\f"}

\* str.isdigit()
IsDigit(c) == c \in {"0", "1", "2", "3", "4", "5", "6", "7", "8", "9"}

RECURSIVE LStrip(_)
LStrip(s) == IF s # <<>> /\ IsSpace(Head(s)) THEN LStrip(Tail(s)) ELSE s

RECURSIVE RStrip(_)
RStrip(s) ==
    IF s # <<>> /\ IsSpace(s[Len(s)]) THEN RStrip(SubSeq(s, 1, Len(s) - 1)) ELSE s

\* str.strip()
Strip(s) == RStrip(LStrip(s))

\* a dict in insertion order: a sequence of [id, seq] records with distinct ids
DictHas(d, key) == \E k \in 1..Len(d) : d[k].id = key
DictGet(d, key) == d[CHOOSE k \in 1..Len(d) : d[k].id = key].seq
DictSet(d, key, value) ==
    IF DictHas(d, key)
    THEN [k \in 1..Len(d) |-> IF d[k].id = key THEN [id |-> key, seq |-> value] ELSE d[k]]
    ELSE Append(d, [id |-> key, seq |-> value])
DictKeys(d) == [k \in 1..Len(d) |-> d[k].id]

allowed == {"A", "C", "G", "T", "R", "Y", "S", "W", "K", "M", "B", "D", "H", "V", "N"}

\* the normalisation of a stripped sequence line
NormalizeSeqLine(line) ==
    SelectSeq(
        StrRemove(StrRemove(
            StrReplace(
                StrRemove(StrRemove(StrReplace(StrUpper(line), "U", "T"), "-"), "."),
                "?", "N"),
            " "), "\t"),
        LAMBDA c : ~IsDigit(c))

\* a loop body in which a sequence line replaces what the record holds
LoadLineOverwrite(st, raw_line, line_num) ==
    LET line == Strip(raw_line) IN
    IF line = <<>> THEN st
    ELSE IF Head(line) = ">"
    THEN LET current_id == Strip(Tail(line)) IN
         IF current_id = <<>> THEN Err("Pusty naglowek", line_num)
         ELSE IF DictHas(st.sequences, current_id) THEN Err("Duplikat ID", current_id)
         ELSE [status |-> "ok",
               sequences |-> DictSet(st.sequences, current_id, <<>>),
               current_id |-> Some(current_id)]
    ELSE IF st.current_id = None THEN Err("Plik nie zaczyna sie od naglowka FASTA", line_num)
    ELSE LET seq_line == NormalizeSeqLine(line)
             bad == { seq_line[k] : k \in 1..Len(seq_line) } \ allowed
         IN  IF bad # {} THEN Err("Niepoprawne znaki", bad)
             ELSE [st EXCEPT !.sequences = DictSet(@, st.current_id.val, seq_line)]

\* a loop body in which a header whose id is already present is skipped
LoadLineKeepFirst(st, raw_line, line_num) ==
    LET line == Strip(raw_line) IN
    IF line = <<>> THEN st
    ELSE IF Head(line) = ">"
    THEN LET current_id == Strip(Tail(line)) IN
         IF current_id = <<>> THEN Err("Pusty naglowek", line_num)
         ELSE IF DictHas(st.sequences, current_id)
         THEN [st EXCEPT !.current_id = Some(current_id)]
         ELSE [status |-> "ok",
               sequences |-> DictSet(st.sequences, current_id, <<>>),
               current_id |-> Some(current_id)]
    ELSE IF st.current_id = None THEN Err("Plik nie zaczyna sie od naglowka FASTA", line_num)
    ELSE LET seq_line == NormalizeSeqLine(line)
             bad == { seq_line[k] : k \in 1..Len(seq_line) } \ allowed
         IN  IF bad # {} THEN Err("Niepoprawne znaki", bad)
             ELSE [st EXCEPT !.sequences =
                      DictSet(@, st.current_id.val, DictGet(@, st.current_id.val) \o seq_line)]

\* the body of the loop over the lines: the next loop state, or the error raised
LoadLine(st, raw_line, line_num) ==
    LET line == Strip(raw_line) IN
    IF line = <<>> THEN st
    ELSE IF Head(line) = ">"
    THEN LET current_id == Strip(Tail(line)) IN
         IF current_id = <<>> THEN Err("Pusty naglowek", line_num)
         ELSE IF DictHas(st.sequences, current_id) THEN Err("Duplikat ID", current_id)
         ELSE [status |-> "ok",
               sequences |-> DictSet(st.sequences, current_id, <<>>),
               current_id |-> Some(current_id)]
    ELSE IF st.current_id = None THEN Err("Plik nie zaczyna sie od naglowka FASTA", line_num)
    ELSE LET seq_line == NormalizeSeqLine(line)
             bad == { seq_line[k] : k \in 1..Len(seq_line) } \ allowed
         IN  IF bad # {} THEN Err("Niepoprawne znaki", bad)
             ELSE [st EXCEPT !.sequences =
                      DictSet(@, st.current_id.val, DictGet(@, st.current_id.val) \o seq_line)]

\* for line_num, line in enumerate(f, start=1), from line_num on
RECURSIVE LoadLoop(_, _, _)
LoadLoop(lines, line_num, st) ==
    IF line_num > Len(lines) \/ st.status = "error" THEN st
    ELSE LoadLoop(lines, line_num + 1, LoadLine(st, lines[line_num], line_num))

\* load_fasta on a file with the given lines
load_fasta(lines) ==
    LET st == LoadLoop(lines, 1, [status |-> "ok", sequences |-> <<>>, current_id |-> None])
    IN  IF st.status = "error" THEN st
        ELSE IF st.sequences = <<>> THEN Err("Nie znaleziono sekwencji", 0)
        ELSE Ok(st.sequences)

\* ------------------------------------------------------------------------
\* The loader applied to every file of bounded length
\* ------------------------------------------------------------------------
LoaderLines ==
    { << ">", "s", "e", "q", "1" >>,
      << ">", "s", "e", "q", "2" >>,
      << " ", ">", " ", "s", "e", "q", "1", "\t" >>,
      << ">", " " >>,
      << " " >>,
      << "A", "T", "G", "C" >>,
      << "a", "t", "g", "c", "n" >>,
      << "\f", "a", "-", "u", ".", "?", "1", " ", "\t", "g", " " >>,
      << "A", "\f", "C" >>,
      << "s", "e", "q" >> }

InitLoader ==
    /\ l_lines \in SeqsUpTo(LoaderLines, MaxLines)
    /\ l_result = Pending
    /\ MatcherIdle
    /\ EngineIdle
    /\ AppIdle
    /\ ExportIdle

LoadFasta ==
    /\ l_result = Pending
    /\ l_result' = load_fasta(l_lines)
    /\ UNCHANGED << l_lines, matcherVars, engineVars, appVars, exportVars >>

NextLoader == LoadFasta

SpecLoader == InitLoader /\ [][NextLoader]_vars

\* ------------------------------------------------------------------------
\* The matcher applied to every pair of bounded strings
\* ------------------------------------------------------------------------
MatcherChars == {"A", "R", "u", "x"}

InitMatcher ==
    /\ m_sequence \in SeqsUpTo(MatcherChars, MaxSeqLen)
    /\ m_motif \in SeqsUpTo(MatcherChars, MaxMotifLen)
    /\ m_positions = Pending
    /\ m_count = Pending
    /\ c_seq_char = ""
    /\ c_motif_char = ""
    /\ c_match = Pending
    /\ c_swapped = Pending
    /\ LoaderIdle
    /\ EngineIdle
    /\ AppIdle
    /\ ExportIdle

symbolVars == << c_seq_char, c_motif_char, c_match, c_swapped >>

FindPositions ==
    /\ m_positions = Pending
    /\ m_positions' = iupac_find_positions(m_sequence, m_motif)
    /\ UNCHANGED << m_sequence, m_motif, m_count, symbolVars, loaderVars, engineVars, appVars, exportVars >>

Count ==
    /\ m_count = Pending
    /\ m_count' = iupac_count(m_sequence, m_motif)
    /\ UNCHANGED << m_sequence, m_motif, m_positions, symbolVars, loaderVars, engineVars, appVars, exportVars >>

NextMatcher == FindPositions \/ Count

SpecMatcher == InitMatcher /\ [][NextMatcher]_vars

\* ------------------------------------------------------------------------
\* The match relation applied to every pair of characters
\* ------------------------------------------------------------------------
\* the keys of the mask table, some of them in lower case, and characters
\* that are no keys
SymbolChars ==
    {"A", "C", "G", "T", "U", "R", "Y", "S", "W", "K", "M", "B", "D", "H", "V", "N",
     "a", "t", "n", "y", "X", "-"}

InitSymbols ==
    /\ c_seq_char \in SymbolChars
    /\ c_motif_char \in SymbolChars
    /\ c_match = Pending
    /\ c_swapped = Pending
    /\ m_sequence = <<>>
    /\ m_motif = <<>>
    /\ m_positions = Pending
    /\ m_count = Pending
    /\ LoaderIdle
    /\ EngineIdle
    /\ AppIdle
    /\ ExportIdle

Matches ==
    /\ c_match = Pending
    /\ c_match' = Ok(matches_iupac(c_seq_char, c_motif_char))
    /\ UNCHANGED << c_seq_char, c_motif_char, c_swapped,
                    m_sequence, m_motif, m_positions, m_count,
                    loaderVars, engineVars, appVars, exportVars >>

MatchesSwapped ==
    /\ c_swapped = Pending
    /\ c_swapped' = Ok(matches_iupac(c_motif_char, c_seq_char))
    /\ UNCHANGED << c_seq_char, c_motif_char, c_match,
                    m_sequence, m_motif, m_positions, m_count,
                    loaderVars, engineVars, appVars, exportVars >>

NextSymbols == Matches \/ MatchesSwapped

SpecSymbols == InitSymbols /\ [][NextSymbols]_vars

\* ------------------------------------------------------------------------
\* Analysis engine (analysis_engine.py), with iupac_count as iupac_count_fn
\* ------------------------------------------------------------------------
\* np.zeros((n_seq, n_mot), dtype=int) and np.zeros((n_seq,), dtype=int)
Zeros2(n_seq, n_mot) == [i \in 1..n_seq |-> [j \in 1..n_mot |-> 0]]
Zeros1(n_seq) == [i \in 1..n_seq |-> 0]

\* an inner loop that stores the count of cell (i, j) in cell (i, 0)
RECURSIVE MotifLoopFirstColumn(_, _, _, _, _)
MotifLoopFirstColumn(seq, mot_list, i, j, st) ==
    IF j >= Len(mot_list) THEN st
    ELSE LET c == iupac_count(seq, mot_list[j + 1])
             calls == Append(st.calls, << i, j >>)
         IN  IF c.status = "error"
             THEN [status |-> "error", msg |-> c.msg, what |-> c.what, calls |-> calls]
             ELSE MotifLoopFirstColumn(seq, mot_list, i, j + 1,
                      [st EXCEPT !.raw[i + 1][1] = c.val, !.calls = calls])

\* for j, mot in enumerate(mot_list), from j on; an error of the matcher
\* ends the loop
RECURSIVE MotifLoop(_, _, _, _, _)
MotifLoop(seq, mot_list, i, j, st) ==
    IF j >= Len(mot_list) THEN st
    ELSE LET c == iupac_count(seq, mot_list[j + 1])
             calls == Append(st.calls, << i, j >>)
         IN  IF c.status = "error"
             THEN [status |-> "error", msg |-> c.msg, what |-> c.what, calls |-> calls]
             ELSE MotifLoop(seq, mot_list, i, j + 1,
                      [st EXCEPT !.raw[i + 1][j + 1] = c.val, !.calls = calls])

\* for i, sid in enumerate(seq_ids), from i on
RECURSIVE SequenceLoop(_, _, _, _, _)
SequenceLoop(seq_dict, seq_ids, mot_list, i, st) ==
    IF i >= Len(seq_ids) \/ st.status = "error" THEN st
    ELSE LET seq == DictGet(seq_dict, seq_ids[i + 1])
         IN  SequenceLoop(seq_dict, seq_ids, mot_list, i + 1,
                 MotifLoop(seq, mot_list, i, 0, [st EXCEPT !.lengths[i + 1] = Len(seq)]))

\* a compute_analysis whose seq_ids is sequences.keys(), a view of the
\* caller's dict
compute_analysis_keys_view(seq_dict, motif_list, fasta_path) ==
    IF seq_dict = <<>>
    THEN [status |-> "error", msg |-> "Brak sekwencji do analizy.", what |-> "", calls |-> <<>>]
    ELSE IF motif_list = <<>>
    THEN [status |-> "error", msg |-> "Brak motywow do analizy.", what |-> "", calls |-> <<>>]
    ELSE
    LET seq_ids == DictKeys(seq_dict)
        mot_list == motif_list
        n_seq == Len(seq_ids)
        n_mot == Len(mot_list)
        st == SequenceLoop(seq_dict, seq_ids, mot_list, 0,
                  [status |-> "ok", raw |-> Zeros2(n_seq, n_mot),
                   lengths |-> Zeros1(n_seq), calls |-> <<>>])
    IN  IF st.status = "error" THEN st
        ELSE [status |-> "ok",
              val |-> [seq_ids |-> seq_ids,
                       motifs |-> mot_list,
                       raw_counts |-> st.raw,
                       seq_lengths |-> st.lengths,
                       fasta_path |-> fasta_path,
                       iupac_enabled |-> TRUE,
                       overlapping |-> TRUE,
                       aliases |-> {"sequences"}],
              calls |-> st.calls]

\* a compute_analysis without the check of the motif list
compute_analysis_no_motif_check(seq_dict, motif_list, fasta_path) ==
    IF seq_dict = <<>>
    THEN [status |-> "error", msg |-> "Brak sekwencji do analizy.", what |-> "", calls |-> <<>>]
    ELSE
    LET seq_ids == DictKeys(seq_dict)
        mot_list == motif_list
        n_seq == Len(seq_ids)
        n_mot == Len(mot_list)
        st == SequenceLoop(seq_dict, seq_ids, mot_list, 0,
                  [status |-> "ok", raw |-> Zeros2(n_seq, n_mot),
                   lengths |-> Zeros1(n_seq), calls |-> <<>>])
    IN  IF st.status = "error" THEN st
        ELSE [status |-> "ok",
              val |-> [seq_ids |-> seq_ids,
                       motifs |-> mot_list,
                       raw_counts |-> st.raw,
                       seq_lengths |-> st.lengths,
                       fasta_path |-> fasta_path,
                       iupac_enabled |-> TRUE,
                       overlapping |-> TRUE,
                       aliases |-> {}],
              calls |-> st.calls]

\* compute_analysis: the AnalysisResult (created_at left out) or the error
\* raised, with the (i, j) of every call of the matcher in calls
\* (seq_dict and motif_list are the arguments sequences and motifs).
\* aliases names the arguments whose object the result refers to: none,
\* list(sequences.keys()) and list(motifs) are new lists and np.zeros makes
\* new arrays.
compute_analysis(seq_dict, motif_list, fasta_path) ==
    IF seq_dict = <<>>
    THEN [status |-> "error", msg |-> "Brak sekwencji do analizy.", what |-> "", calls |-> <<>>]
    ELSE IF motif_list = <<>>
    THEN [status |-> "error", msg |-> "Brak motywow do analizy.", what |-> "", calls |-> <<>>]
    ELSE
    LET seq_ids == DictKeys(seq_dict)
        mot_list == motif_list
        n_seq == Len(seq_ids)
        n_mot == Len(mot_list)
        st == SequenceLoop(seq_dict, seq_ids, mot_list, 0,
                  [status |-> "ok", raw |-> Zeros2(n_seq, n_mot),
                   lengths |-> Zeros1(n_seq), calls |-> <<>>])
    IN  IF st.status = "error" THEN st
        ELSE [status |-> "ok",
              val |-> [seq_ids |-> seq_ids,
                       motifs |-> mot_list,
                       raw_counts |-> st.raw,
                       seq_lengths |-> st.lengths,
                       fasta_path |-> fasta_path,
                       iupac_enabled |-> TRUE,
                       overlapping |-> TRUE,
                       aliases |-> {}],
              calls |-> st.calls]

\* A float is kept as the fraction num/den in lowest terms, den > 0; the
\* rounding of a float64 operation is left out.  den = 0 stands for what a
\* division by 0.0 gives: nan (num = 0) or inf (num = 1).
RECURSIVE GCD(_, _)
GCD(a, b) == IF b = 0 THEN a ELSE GCD(b, a % b)

Fraction(n, d) ==
    IF d = 0 THEN [num |-> IF n = 0 THEN 0 ELSE 1, den |-> 0]
    ELSE IF n = 0 THEN [num |-> 0, den |-> 1]
    ELSE [num |-> n \div GCD(n, d), den |-> d \div GCD(n, d)]

\* int -> float, as astype(float) does
Float(n) == [num |-> n, den |-> 1]

\* x / y and x * y on non-negative floats
FloatDiv(x, y) == Fraction(x.num * y.den, x.den * y.num)
FloatMul(x, y) ==
    IF x.den = 0 \/ y.den = 0 THEN [num |-> IF x.num = 0 \/ y.num = 0 THEN 0 ELSE 1, den |-> 0]
    ELSE Fraction(x.num * y.num, x.den * y.den)

mode_raw == << "r", "a", "w" >>
mode_norm == << "n", "o", "r", "m" >>

\* a matrix whose norm branch divides by the lengths as they are
matrix_plain_division(self, mode) ==
    LET mode_l == StrLower(IF mode = None \/ mode.val = <<>> THEN mode_raw ELSE mode.val)
        n_seq == Len(self.raw_counts)
    IN  IF mode_l = mode_raw
        THEN [status |-> "ok",
              val |-> [i \in 1..n_seq |->
                         [j \in 1..Len(self.raw_counts[i]) |-> Float(self.raw_counts[i][j])]],
              self |-> self]
        ELSE IF mode_l = mode_norm
        THEN LET lengths == [i \in 1..Len(self.seq_lengths) |-> Float(self.seq_lengths[i])]
                 denom == lengths
             IN  [status |-> "ok",
                  val |-> [i \in 1..n_seq |->
                             [j \in 1..Len(self.raw_counts[i]) |->
                                FloatMul(FloatDiv(Float(self.raw_counts[i][j]), denom[i]),
                                         Float(1000))]],
                  self |-> self]
        ELSE [status |-> "error", msg |-> "Nieznany tryb: {mode}. Dozwolone: raw, norm",
              what |-> mode_l, self |-> self]

\* a matrix whose norm branch scales the counts of the result in place
matrix_in_place(self, mode) ==
    LET mode_l == StrLower(IF mode = None \/ mode.val = <<>> THEN mode_raw ELSE mode.val)
        n_seq == Len(self.raw_counts)
    IN  IF mode_l = mode_raw
        THEN [status |-> "ok",
              val |-> [i \in 1..n_seq |->
                         [j \in 1..Len(self.raw_counts[i]) |-> Float(self.raw_counts[i][j])]],
              self |-> self]
        ELSE IF mode_l = mode_norm
        THEN LET scaled == [i \in 1..n_seq |->
                              [j \in 1..Len(self.raw_counts[i]) |->
                                 (self.raw_counts[i][j] * 1000)
                                    \div (IF self.seq_lengths[i] > 0 THEN self.seq_lengths[i] ELSE 1)]]
             IN  [status |-> "ok",
                  val |-> [i \in 1..n_seq |-> [j \in 1..Len(scaled[i]) |-> Float(scaled[i][j])]],
                  self |-> [self EXCEPT !.raw_counts = scaled]]
        ELSE [status |-> "error", msg |-> "Nieznany tryb: {mode}. Dozwolone: raw, norm",
              what |-> mode_l, self |-> self]

\* AnalysisResult.matrix: the array returned or the error raised, and the
\* result after the call (astype, np.where and the arithmetic make new
\* arrays; the dataclass is frozen).  mode is None or Some(text).
matrix(self, mode) ==
    LET mode_l == StrLower(IF mode = None \/ mode.val = <<>> THEN mode_raw ELSE mode.val)
        n_seq == Len(self.raw_counts)
    IN  IF mode_l = mode_raw
        THEN [status |-> "ok",
              val |-> [i \in 1..n_seq |->
                         [j \in 1..Len(self.raw_counts[i]) |-> Float(self.raw_counts[i][j])]],
              self |-> self]
        ELSE IF mode_l = mode_norm
        THEN LET lengths == [i \in 1..Len(self.seq_lengths) |-> Float(self.seq_lengths[i])]
                 denom == [i \in 1..Len(lengths) |->
                             IF lengths[i].num > 0 THEN lengths[i] ELSE Float(1)]
             IN  [status |-> "ok",
                  val |-> [i \in 1..n_seq |->
                             [j \in 1..Len(self.raw_counts[i]) |->
                                FloatMul(FloatDiv(Float(self.raw_counts[i][j]), denom[i]),
                                         Float(1000))]],
                  self |-> self]
        ELSE [status |-> "error", msg |-> "Nieznany tryb: {mode}. Dozwolone: raw, norm",
              what |-> mode_l, self |-> self]

\* ------------------------------------------------------------------------
\* The engine applied to bounded collections
\* ------------------------------------------------------------------------
EngineIds == { << "s", "1" >>, << "s", "2" >>, << "s", "3" >> }
EngineSeqs ==
    { <<>>,
      << "A", "T", "G", "C", "G", "T", "A", "T", "G" >>,
      << "A", "A", "A", "A" >>,
      << "A", "x", "A" >> }
EngineMotifs ==
    { << "A", "T", "G" >>, << "A", "A" >>, << "A", "x" >>, <<>>,
      << "A", "A", "A", "A", "x" >> }

\* the dicts of at most n entries with keys in EngineIds and values in EngineSeqs
EngineDicts(n) ==
    { d \in SeqsUpTo([id : EngineIds, seq : EngineSeqs], n) :
        \A j, k \in 1..Len(d) : j # k => d[j].id # d[k].id }

InitEngine ==
    /\ e_sequences \in EngineDicts(MaxSeqs)
    /\ e_motifs \in SeqsUpTo(EngineMotifs, MaxMotifs)
    /\ e_fasta_path \in { None, Some("a.fasta") }
    /\ e_result = Pending
    /\ e_mode = None
    /\ e_matrix = Pending
    /\ e_matrix_calls = 0
    /\ MatcherIdle
    /\ LoaderIdle
    /\ AppIdle
    /\ ExportIdle

ComputeAnalysis ==
    /\ e_result = Pending
    /\ e_result' = compute_analysis(e_sequences, e_motifs, e_fasta_path)
    /\ UNCHANGED << e_sequences, e_motifs, e_fasta_path, e_mode, e_matrix, e_matrix_calls,
                    matcherVars, loaderVars, appVars, exportVars >>

\* the values passed as mode: absent, empty, the two modes, a case variant
\* and an unknown word
EngineModes ==
    { None, Some(<<>>), Some(mode_raw), Some(mode_norm),
      Some(<< "R", "A", "W" >>), Some(<< "l", "o", "g" >>) }

\* a call of matrix on the result compute_analysis returned
Matrix(mode) ==
    /\ e_result.status = "ok"
    /\ e_matrix_calls < MaxMatrixCalls
    /\ LET out == matrix(e_result.val, mode) IN
       /\ e_matrix' = IF out.status = "ok" THEN Ok(out.val) ELSE Err(out.msg, out.what)
       /\ e_result' = [e_result EXCEPT !.val = out.self]
    /\ e_mode' = mode
    /\ e_matrix_calls' = e_matrix_calls + 1
    /\ UNCHANGED << e_sequences, e_motifs, e_fasta_path, matcherVars, loaderVars, appVars, exportVars >>

NextEngine == ComputeAnalysis

SpecEngine == InitEngine /\ [][NextEngine]_vars

\* ------------------------------------------------------------------------
\* matrix applied, in every order of the modes, to the results of bounded
\* collections
\* ------------------------------------------------------------------------
MatrixIds == { << "s", "1" >>, << "s", "2" >> }
MatrixSeqs ==
    { <<>>,
      << "A", "T", "G", "C", "G", "T", "A", "T", "G" >>,
      << "A", "A", "A", "A" >> }
MatrixMotifs == { << "A", "T", "G" >>, << "A", "A" >> }

InitMatrix ==
    /\ e_sequences \in { d \in SeqsUpTo([id : MatrixIds, seq : MatrixSeqs], MaxSeqs) :
                            \A j, k \in 1..Len(d) : j # k => d[j].id # d[k].id }
    /\ e_motifs \in SeqsUpTo(MatrixMotifs, MaxMotifs)
    /\ e_fasta_path = None
    /\ e_result = Pending
    /\ e_mode = None
    /\ e_matrix = Pending
    /\ e_matrix_calls = 0
    /\ MatcherIdle
    /\ LoaderIdle
    /\ AppIdle
    /\ ExportIdle

NextMatrix ==
    \/ ComputeAnalysis
    \/ \E mode \in EngineModes : Matrix(mode)

SpecMatrix == InitMatrix /\ [][NextMatrix]_vars

\* ------------------------------------------------------------------------
\* The export functions (export_manager.py)
\* ------------------------------------------------------------------------
\* A text is a sequence of pieces, each a character or a literal of the
\* code kept whole; a file is the sequence of its lines.

\* str(n) of an int n >= 0
RECURSIVE Digits(_)
Digits(n) ==
    LET d == << "0", "1", "2", "3", "4", "5", "6", "7", "8", "9" >>[(n % 10) + 1]
    IN  IF n < 10 THEN << d >> ELSE Append(Digits(n \div 10), d)

\* x + y on non-negative finite floats
FloatAdd(x, y) == Fraction(x.num * y.den + y.num * x.den, x.den * y.den)

\* row.sum() and mat.sum()
RECURSIVE FloatSum(_)
FloatSum(row) == IF row = <<>> THEN Float(0) ELSE FloatAdd(Head(row), FloatSum(Tail(row)))

\* str(int(v)) of a non-negative finite float: int truncates
FormatInt(v) == Digits(v.num \div v.den)

\* a one-decimal format that cuts the further digits off
FormatFixed1Truncating(v) ==
    LET tenths == (v.num * 10) \div v.den
    IN  Digits(tenths \div 10) \o << "." >> \o Digits(tenths % 10)

\* f"{v:.1f}" of a non-negative finite float: the nearest tenth, a tie
\* going to the even digit
FormatFixed1(v) ==
    LET q == (v.num * 10) \div v.den
        r == (v.num * 10) % v.den
        tenths == IF 2 * r > v.den \/ (2 * r = v.den /\ q % 2 = 1) THEN q + 1 ELSE q
    IN  Digits(tenths \div 10) \o << "." >> \o Digits(tenths % 10)

\* sep.join(fields)
RECURSIVE Join(_, _)
Join(fields, sep) ==
    IF fields = <<>> THEN <<>>
    ELSE IF Len(fields) = 1 THEN fields[1]
    ELSE fields[1] \o << sep >> \o Join(Tail(fields), sep)

\* [format(v) for v in row_vals], formatted as the test mode == "raw" says
Cells(row_vals, mode) ==
    [j \in 1..Len(row_vals) |->
        IF mode = Some(mode_raw) THEN FormatInt(row_vals[j]) ELSE FormatFixed1(row_vals[j])]

\* the total of a row, formatted as the test mode == "raw" says
Total(row_vals, mode) ==
    IF mode = Some(mode_raw) THEN FormatInt(FloatSum(row_vals)) ELSE FormatFixed1(FloatSum(row_vals))

\* the default of the parameter table_max_rows of export_report
table_max_rows_default == 200

\* export_results_csv: the file at path afterwards (absent when it was not
\* opened, else its lines) and the error raised, if any.  mode is None or
\* Some(text).
export_results_csv(result, sep, mode, layout, include_sum) ==
    LET m == matrix(result, mode) IN
    IF m.status = "error"
    THEN [status |-> "error", msg |-> m.msg, file |-> None]
    ELSE
    LET mat == m.val
        seq_ids == result.seq_ids
        motif_list == result.motifs
    IN  IF layout = "wide"
        THEN LET header == << << "Sekwencja" >> >> \o motif_list
                              \o (IF include_sum THEN << << "SUMA" >> >> ELSE <<>>)
                 rows == [i \in 1..Len(seq_ids) |->
                            Join(<< seq_ids[i] >> \o Cells(mat[i], mode)
                                    \o (IF include_sum THEN << Total(mat[i], mode) >> ELSE <<>>),
                                 sep)]
             IN  [status |-> "ok", msg |-> "", file |-> Some(<< Join(header, sep) >> \o rows)]
        ELSE IF layout = "long"
        THEN LET n_mot == Len(motif_list)
                 rows == [k \in 1..(Len(seq_ids) * n_mot) |->
                            LET i == ((k - 1) \div n_mot) + 1
                                j == ((k - 1) % n_mot) + 1
                            IN  Join(<< seq_ids[i], motif_list[j], Cells(mat[i], mode)[j] >>, sep)]
             IN  [status |-> "ok", msg |-> "",
                  file |-> Some(<< Join(<< << "sequence_id" >>, << "motif" >>, << "value" >> >>, sep) >>
                                \o rows)]
        ELSE [status |-> "error", msg |-> "layout must be 'wide' or 'long'", file |-> Some(<<>>)]

\* a table of the report with the notice from table_max_rows rows on
ReportTableNoticeAtCap(result, mat, mode, table_max_rows) ==
    LET seq_ids == result.seq_ids
        header == << << "Sekwencja" >> >> \o result.motifs \o << << "SUMA" >> >>
        n == IF Len(seq_ids) < table_max_rows THEN Len(seq_ids) ELSE table_max_rows
        rows == [i \in 1..n |->
                   Join(<< seq_ids[i] >> \o Cells(mat[i], mode) \o << Total(mat[i], mode) >>, "\t")]
    IN  << Join(header, "\t") >> \o rows
           \o (IF Len(seq_ids) >= table_max_rows
                THEN << << "... (ucieto do " >> \o Digits(table_max_rows) \o << " wierszy)" >> >>
                ELSE <<>>)

\* the lines of the table of export_report
ReportTable(result, mat, mode, table_max_rows) ==
    LET seq_ids == result.seq_ids
        header == << << "Sekwencja" >> >> \o result.motifs \o << << "SUMA" >> >>
        n == IF Len(seq_ids) < table_max_rows THEN Len(seq_ids) ELSE table_max_rows
        rows == [i \in 1..n |->
                   Join(<< seq_ids[i] >> \o Cells(mat[i], mode) \o << Total(mat[i], mode) >>, "\t")]
    IN  << Join(header, "\t") >> \o rows
           \o (IF Len(seq_ids) > table_max_rows
                THEN << << "... (ucieto do " >> \o Digits(table_max_rows) \o << " wierszy)" >> >>
                ELSE <<>>)

\* export_report: the file at path afterwards, as its lines, and the
\* error raised, if any.  mode is None or Some(text).
export_report(result, mode, fmt, include_table, table_max_rows) ==
    LET m == matrix(result, mode) IN
    IF m.status = "error"
    THEN [status |-> "error", msg |-> m.msg, file |-> None]
    ELSE
    LET mat == m.val
        h(t) == IF fmt = "html" THEN << << "<h2>", t, "</h2>" >> >>
                ELSE << <<>>, << "== ", t, " ==" >> >>
        para(t) == IF fmt = "html" THEN << << "<p>" >> \o t \o << "</p>" >> >> ELSE << t >>
        mode_text == IF mode = None THEN << "None" >> ELSE mode.val
        total_sum == FloatSum([i \in 1..Len(mat) |-> FloatSum(mat[i])])
        table_txt == ReportTable(result, mat, mode, table_max_rows)
    IN  [status |-> "ok", msg |-> "",
         file |-> Some(
              (IF fmt = "html"
               THEN << << "<!doctype html><html><meta charset='utf-8'><body>" >> >> ELSE <<>>)
           \o h("Raport analizy motywow DNA")
           \o para(<< "Data utworzenia wyniku: ", "{result.created_at}" >>)
           \o (IF result.fasta_path # None /\ result.fasta_path.val # ""
               THEN para(<< "Plik FASTA: ", result.fasta_path.val >>) ELSE <<>>)
           \o para(<< "Tryb: " >> \o mode_text
                    \o (IF mode = Some(mode_raw) THEN << " (surowe)" >> ELSE << " (na 1000 nt)" >>))
           \o para(<< "IUPAC: ", IF result.iupac_enabled THEN "enabled" ELSE "disabled" >>)
           \o para(<< "Dopasowania: ",
                      IF result.overlapping THEN "overlapping" ELSE "non-overlapping" >>)
           \o para(<< "Liczba sekwencji: " >> \o Digits(Len(result.seq_ids)))
           \o para(<< "Liczba motywow: " >> \o Digits(Len(result.motifs)))
           \o h("Podsumowanie")
           \o para(IF mode # Some(mode_raw)
                   THEN << "Suma wszystkich wartosci w macierzy: " >> \o FormatFixed1(total_sum)
                   ELSE << "Suma wszystkich zliczen: " >> \o FormatInt(total_sum))
           \o (IF include_table
               THEN h("Tabela wynikow (wide)")
                    \o (IF fmt = "html"
                        THEN << << "<pre>" >> >> \o table_txt \o << << "</pre>" >> >>
                        ELSE table_txt)
               ELSE <<>>)
           \o (IF fmt = "html" THEN << << "</body></html>" >> >> ELSE <<>>))]

\* render_results_table: the values of the rows inserted into
\* self.results_table (none when the result is None); mode is what
\* self.normalization_mode holds
render_results_table(result, mode) ==
    IF result = None THEN <<>>
    ELSE LET mat == matrix(result, Some(mode)).val IN
         [i \in 1..Len(result.seq_ids) |->
            << result.seq_ids[i] >> \o Cells(mat[i], Some(mode)) \o << Total(mat[i], Some(mode)) >>]

\* ------------------------------------------------------------------------
\* The export functions applied to the results of bounded collections
\* ------------------------------------------------------------------------
\* ids as load_fasta stores them: the header line after ">", stripped
ExportIds == { << "s", "1" >>, << "a", ";", "b" >> }
ExportSeqs ==
    { <<>>,
      << "A", "T", "G", "C", "G", "T", "A", "T", "G" >>,
      << "A", "A", "A" >> }
ExportMotifs == { << "A", "T", "G" >>, << "A", "A" >> }
ExportSeps == { ";", ",", "\t" }
ExportLayouts == { "wide", "long", "tall" }
ReportFmts == { "txt", "html" }
\* the caps passed as table_max_rows
ReportCaps == (0..MaxSeqs) \cup { table_max_rows_default }

InitExport ==
    /\ e_sequences \in { d \in SeqsUpTo([id : ExportIds, seq : ExportSeqs], MaxSeqs) :
                            \A j, k \in 1..Len(d) : j # k => d[j].id # d[k].id }
    /\ e_motifs \in SeqsUpTo(ExportMotifs, MaxMotifs)
    /\ e_fasta_path \in { None, Some("a.fasta") }
    /\ e_result = Pending
    /\ e_mode = None
    /\ e_matrix = Pending
    /\ e_matrix_calls = 0
    /\ MatcherIdle
    /\ LoaderIdle
    /\ AppIdle
    /\ ExportIdle

\* Each behaviour makes one call: what a call writes depends on the result
\* and the arguments only.
\* a call of export_results_csv on the result compute_analysis returned
ExportResultsCsv(sep, mode, layout, include_sum) ==
    /\ e_result.status = "ok"
    /\ x_call = None
    /\ x_call' = Some([fn |-> "export_results_csv", sep |-> sep, mode |-> mode,
                        layout |-> layout, include_sum |-> include_sum])
    /\ x_out' = export_results_csv(e_result.val, sep, mode, layout, include_sum)
    /\ UNCHANGED << x_sep, x_mode, x_layout, x_rep_fmt, x_rep_mode, x_rep_table,
                    matcherVars, loaderVars, engineVars, appVars >>

\* a call of export_report on the result compute_analysis returned
ExportReport(mode, fmt, include_table, table_max_rows) ==
    /\ e_result.status = "ok"
    /\ x_call = None
    /\ x_call' = Some([fn |-> "export_report", mode |-> mode, fmt |-> fmt,
                        include_table |-> include_table, table_max_rows |-> table_max_rows])
    /\ x_out' = export_report(e_result.val, mode, fmt, include_table, table_max_rows)
    /\ UNCHANGED << x_sep, x_mode, x_layout, x_rep_fmt, x_rep_mode, x_rep_table,
                    matcherVars, loaderVars, engineVars, appVars >>

\* render_results_table on the result compute_analysis returned, under the
\* mode a radio button gives
RenderResultsTable(mode) ==
    /\ e_result.status = "ok"
    /\ x_call = None
    /\ x_call' = Some([fn |-> "render_results_table", mode |-> Some(mode)])
    /\ x_out' = [status |-> "ok", msg |-> "",
                 file |-> Some(render_results_table(e_result.val, mode))]
    /\ UNCHANGED << x_sep, x_mode, x_layout, x_rep_fmt, x_rep_mode, x_rep_table,
                    matcherVars, loaderVars, engineVars, appVars >>

NextExport ==
    \/ ComputeAnalysis
    \/ \E sep \in ExportSeps, mode \in EngineModes, layout \in ExportLayouts,
          include_sum \in BOOLEAN : ExportResultsCsv(sep, mode, layout, include_sum)
    \/ \E mode \in EngineModes, fmt \in ReportFmts, include_table \in BOOLEAN,
          table_max_rows \in ReportCaps : ExportReport(mode, fmt, include_table, table_max_rows)
    \/ \E mode \in { mode_raw, mode_norm } : RenderResultsTable(mode)

SpecExport == InitExport /\ [][NextExport]_vars

\* ------------------------------------------------------------------------
\* The application (main.py, class DNAApp)
\* ------------------------------------------------------------------------
\* an alphabet of the motif validator with a letter the mask table lacks
IUPAC_ALLOWED_with_X ==
    {"A", "C", "G", "T", "U", "R", "Y", "S", "W", "K", "M", "B", "D", "H", "V", "N", "X"}

IUPAC_ALLOWED ==
    {"A", "C", "G", "T", "U", "R", "Y", "S", "W", "K", "M", "B", "D", "H", "V", "N"}

\* "".join(s.split()).upper()
normalize_motif(s) == StrUpper(SelectSeq(s, LAMBDA c : ~IsSpace(c)))

\* a validate_motif without the minimum length
validate_motif_any_length(m) ==
    IF m = <<>> THEN FALSE
    ELSE IF \E k \in 1..Len(m) : m[k] \notin IUPAC_ALLOWED THEN FALSE
    ELSE TRUE

\* the first component of the pair validate_motif returns
validate_motif(m) ==
    IF m = <<>> THEN FALSE
    ELSE IF \E k \in 1..Len(m) : m[k] \notin IUPAC_ALLOWED THEN FALSE
    ELSE IF Len(m) < 2 THEN FALSE
    ELSE TRUE

Contains(list, x) == \E k \in 1..Len(list) : list[k] = x

RECURSIVE UniqueLoop(_, _)
UniqueLoop(items, out) ==
    IF items = <<>> THEN out
    ELSE UniqueLoop(Tail(items),
                    IF Contains(out, Head(items)) THEN out ELSE Append(out, Head(items)))

unique_preserve_order(items) == UniqueLoop(items, <<>>)

\* list.pop(idx) for idx >= 0: the list without element idx; an IndexError
\* is caught by the caller and leaves the list as it is
ListPop(list, idx) ==
    IF idx < Len(list)
    THEN SubSeq(list, 1, idx) \o SubSeq(list, idx + 2, Len(list))
    ELSE list

\* for idx in sorted(sel, reverse=True): self.motifs.pop(idx)
RECURSIVE PopSelected(_, _)
PopSelected(list, sel) ==
    IF sel = {} THEN list
    ELSE LET idx == CHOOSE i \in sel : \A i2 \in sel : i2 <= i
         IN  PopSelected(ListPop(list, idx), sel \ {idx})

\* the motifs of EU_MOTIFS and PRO_MOTIFS, without the descriptions
EU_MOTIFS ==
    << << "A", "T", "G" >>, << "T", "A", "A" >>, << "T", "A", "G" >>, << "T", "G", "A" >>,
       << "T", "A", "T", "A", "A", "A" >>, << "C", "C", "A", "A", "T" >>,
       << "G", "G", "G", "C", "G", "G" >>, << "C", "A", "N", "N", "T", "G" >>,
       << "T", "G", "A", "C", "G", "T", "C", "A" >>, << "G", "G", "G", "A", "A", "A" >>,
       << "A", "T", "G", "C", "A", "A", "A", "T" >>, << "A", "A", "T", "A", "A", "A" >>,
       << "G", "T", "A", "G" >> >>
PRO_MOTIFS ==
    << << "A", "T", "G" >>, << "T", "A", "A" >>, << "T", "A", "G" >>, << "T", "G", "A" >>,
       << "T", "A", "T", "A", "A", "T" >>, << "T", "T", "G", "A", "C", "A" >>,
       << "A", "G", "G", "A", "G", "G" >>, << "T", "G", "T", "G", "A", "G" >>,
       << "A", "A", "T", "G", "A", "G" >> >>

\* the check boxes the user clicks: the first MaxReferenceMotifs of each section
ClickedReferenceMotifs ==
    { EU_MOTIFS[k] : k \in 1..MaxReferenceMotifs } \cup { PRO_MOTIFS[k] : k \in 1..MaxReferenceMotifs }

\* the texts typed into the motif entry
MotifEntries ==
    { << "a", "t", "g" >>, << " ", "A", " ", "u", "G" >>, << "A" >>, << "A", "X", "G" >>, <<>> }

\* the token lists an imported file yields
ImportedTokenLists ==
    { << << "a", "t", "g" >>, << "A", "U", "G" >> >>,
      << << "A" >>, << "a", "x", "g" >> >>,
      <<>> }

\* the path the open dialog returns ("" when cancelled) and the files found
\* there
AppPaths == { "a.fasta" }
FastaTexts ==
    { << << ">", "s", "1" >>, << "A", "T", "G", "C", "G", "T", "A", "T", "G" >> >>,
      << << ">", "s", "1" >>, << "t", "a", "a" >>, << ">", "s", "2" >>, << "A", "U", "G", "-", "N" >> >>,
      << << ">", "s", "1" >>, << "A", "T", "G" >>, << ">", "s", "1" >> >> }
\* what efetch returns, and the path the save dialog returns ("" when
\* cancelled)
NcbiTexts ==
    { << << ">", "s", "1" >>, << "t", "a", "a" >>, << ">", "s", "2" >>, << "A", "U", "G", "-", "N" >> >>,
      << << ">", "s", "1" >>, << "A", "T", "G" >>, << ">", "s", "1" >> >>,
      << << "e", "r", "r", "o", "r" >> >> }
NcbiPaths == { "ncbi.fasta" }

\* fasta_text.strip().startswith(">")
StartsWithHeader(lines) ==
    \E k \in 1..Len(lines) :
        /\ Strip(lines[k]) # <<>>
        /\ Head(Strip(lines[k])) = ">"
        /\ \A j \in 1..(k - 1) : Strip(lines[j]) = <<>>

InitApp ==
    /\ sequences = <<>>
    /\ sequences_source = None
    /\ current_fasta = None
    /\ motifs = <<>>
    /\ analysis_result = None
    /\ figures = {}
    /\ manager_open = FALSE
    /\ normalization_mode = mode_raw
    /\ selected_sequence = None
    /\ selected_motif = None
    /\ viz_top = None
    /\ close_barplot_btn = FALSE
    /\ matcher_calls = 0
    /\ MatcherIdle
    /\ LoaderIdle
    /\ EngineIdle
    /\ ExportIdle

otherVars == << matcherVars, loaderVars, engineVars, exportVars >>

\* what the views show and what is selected in them
viewVars == << normalization_mode, selected_sequence, selected_motif, viz_top,
               close_barplot_btn >>

\* a key of self.figures: "heatmap", "barplot_seq_<id>", "barplot_motif_<motif>"
Fig(kind, name) == [kind |-> kind, name |-> name]

\* the result as the application sees it after the object the attribute
\* name ("sequences" or "motifs") refers to has changed in place
AfterInPlace(result, name, seq_dict, motif_list) ==
    IF result = None THEN None
    ELSE IF name \notin result.aliases THEN result
    ELSE IF name = "motifs" THEN [result EXCEPT !.motifs = motif_list]
    ELSE [result EXCEPT !.seq_ids = DictKeys(seq_dict)]

\* the result after the attribute name has been bound to a new object
AfterRebind(result, name) ==
    IF result = None THEN None
    ELSE [result EXCEPT !.aliases = @ \ {name}]

\* draw_visualization: what viz_top shows afterwards and the keys of
\* self.figures (render_results_table, which runs before it in every
\* handler, fills the table from matrix(mode) of the same result)
draw_visualization(result, mode, figs) ==
    IF sequences = <<>> \/ motifs = <<>> \/ result = None
    THEN [viz_top |-> None, figures |-> figs]
    ELSE [viz_top |-> Some([mode |-> mode,
                            seq_ids |-> result.seq_ids,
                            motifs |-> result.motifs,
                            data |-> matrix(result, Some(mode)).val]),
          figures |-> figs \cup { Fig("heatmap", <<>>) }]

\* draw_barplot_sequence on the view v = [figures, btn, raised]; raised is
\* the ValueError of seq_ids.index
draw_barplot_sequence(v, result, selected) ==
    IF selected = None \/ result = None THEN v
    ELSE IF ~(\E k \in 1..Len(result.seq_ids) : result.seq_ids[k] = selected.val)
    THEN [v EXCEPT !.raised = TRUE]
    ELSE [figures |-> v.figures \cup { Fig("barplot_seq", selected.val) },
          btn |-> TRUE, raised |-> FALSE]

\* draw_barplot_motif on the view v; raised is the ValueError of motifs.index
draw_barplot_motif(v, result, selected) ==
    IF selected = None \/ result = None THEN v
    ELSE IF ~(\E k \in 1..Len(result.motifs) : result.motifs[k] = selected.val)
    THEN [v EXCEPT !.raised = TRUE]
    ELSE [figures |-> v.figures \cup { Fig("barplot_motif", selected.val) },
          btn |-> TRUE, raised |-> FALSE]

\* gui_load_file: the dialog returns path, the file there has the given lines
GuiLoadFile(path, lines) ==
    /\ ~manager_open
    /\ IF path = ""
       THEN UNCHANGED << sequences, sequences_source, current_fasta, analysis_result, figures >>
       ELSE LET loaded == load_fasta(lines) IN
            IF loaded.status = "ok"
            THEN /\ sequences' = loaded.val
                 /\ sequences_source' = Some(path)
                 /\ current_fasta' = Some(path)
                 /\ analysis_result' = None
                 /\ figures' = {}
            ELSE \* self.sequences.clear() has run before load_fasta raised
                 /\ sequences' = <<>>
                 /\ sequences_source' = None
                 /\ analysis_result' = AfterInPlace(analysis_result, "sequences", <<>>, motifs)
                 /\ UNCHANGED << current_fasta, figures >>
    /\ matcher_calls' = 0
    /\ UNCHANGED << motifs, manager_open, viewVars >>
    /\ UNCHANGED otherVars

\* download_ncbi.do_download: efetch returns fasta_text, the save dialog
\* returns out_path, the text is written there and loaded
DownloadNcbi(fasta_text, out_path) ==
    /\ ~manager_open
    /\ IF ~StartsWithHeader(fasta_text) \/ out_path = ""
       THEN UNCHANGED << sequences, sequences_source, analysis_result >>
       ELSE LET seqs == load_fasta(fasta_text) IN
            IF seqs.status = "ok"
            THEN /\ sequences' = seqs.val
                 /\ sequences_source' = Some(out_path)
                 /\ analysis_result' = AfterRebind(analysis_result, "sequences")
            ELSE UNCHANGED << sequences, sequences_source, analysis_result >>
    /\ matcher_calls' = 0
    /\ UNCHANGED << current_fasta, motifs, figures, manager_open, viewVars >>
    /\ UNCHANGED otherVars

\* open_motif_manager up to the end of its Init block
OpenMotifManager ==
    /\ ~manager_open
    /\ manager_open' = TRUE
    /\ motifs' = unique_preserve_order(
                     SelectSeq([k \in 1..Len(motifs) |-> normalize_motif(motifs[k])],
                               LAMBDA m : m # <<>>))
    /\ analysis_result' = AfterRebind(analysis_result, "motifs")
    /\ matcher_calls' = 0
    /\ UNCHANGED << sequences, sequences_source, current_fasta, figures, viewVars >>
    /\ UNCHANGED otherVars

\* open_motif_manager.on_close
CloseMotifManager ==
    /\ manager_open
    /\ manager_open' = FALSE
    /\ matcher_calls' = 0
    /\ UNCHANGED << sequences, sequences_source, current_fasta, motifs, analysis_result, figures, viewVars >>
    /\ UNCHANGED otherVars

\* an add_motif that drops the result and the figures before it looks at
\* the entry
AddMotifAlwaysInvalidates(entry) ==
    /\ manager_open
    /\ LET m == normalize_motif(entry) IN
       /\ IF ~validate_motif(m) \/ Contains(motifs, m)
          THEN UNCHANGED motifs
          ELSE motifs' = unique_preserve_order(Append(motifs, m))
       /\ analysis_result' = None
       /\ figures' = {}
    /\ matcher_calls' = 0
    /\ UNCHANGED << sequences, sequences_source, current_fasta, manager_open, viewVars >>
    /\ UNCHANGED otherVars

\* open_motif_manager.add_motif
AddMotif(entry) ==
    /\ manager_open
    /\ LET m == normalize_motif(entry) IN
       IF ~validate_motif(m) \/ Contains(motifs, m)
       THEN UNCHANGED << motifs, analysis_result, figures >>
       ELSE /\ motifs' = unique_preserve_order(Append(motifs, m))
            /\ analysis_result' = None
            /\ figures' = {}
    /\ matcher_calls' = 0
    /\ UNCHANGED << sequences, sequences_source, current_fasta, manager_open, viewVars >>
    /\ UNCHANGED otherVars

\* open_motif_manager.remove_selected; sel is motifs_lb.curselection(), not
\* empty, and the list box shows self.motifs
RemoveSelected ==
    /\ manager_open
    /\ \E sel \in (SUBSET (0..(Len(motifs) - 1))) \ {{}} :
         /\ motifs' = PopSelected(motifs, sel)
         /\ analysis_result' =
              AfterInPlace(analysis_result, "motifs", sequences, PopSelected(motifs, sel))
    /\ matcher_calls' = 0
    /\ UNCHANGED << sequences, sequences_source, current_fasta, figures, manager_open, viewVars >>
    /\ UNCHANGED otherVars

\* open_motif_manager.clear_all; confirmed is the answer to askyesno
ClearAll(confirmed) ==
    /\ manager_open
    /\ IF motifs = <<>> \/ ~confirmed
       THEN UNCHANGED << motifs, analysis_result, figures >>
       ELSE /\ motifs' = <<>>
            /\ analysis_result' = None
            /\ figures' = {}
    /\ matcher_calls' = 0
    /\ UNCHANGED << sequences, sequences_source, current_fasta, manager_open, viewVars >>
    /\ UNCHANGED otherVars

\* for t in tokens: append the valid motifs not yet in self.motifs
RECURSIVE ImportLoop(_, _, _)
ImportLoop(tokens, list, added) ==
    IF tokens = <<>> THEN [motifs |-> list, added |-> added]
    ELSE LET m == normalize_motif(Head(tokens)) IN
         IF validate_motif(m) /\ ~Contains(list, m)
         THEN ImportLoop(Tail(tokens), Append(list, m), added + 1)
         ELSE ImportLoop(Tail(tokens), list, added)

\* open_motif_manager.add_imported_tokens, reached from import_motifs
AddImportedTokens(tokens) ==
    /\ manager_open
    /\ LET done == ImportLoop(tokens, motifs, 0) IN
       /\ motifs' = unique_preserve_order(done.motifs)
       /\ IF done.added > 0
          THEN analysis_result' = None /\ figures' = {}
          ELSE /\ analysis_result' = AfterRebind(analysis_result, "motifs")
               /\ UNCHANGED figures
    /\ matcher_calls' = 0
    /\ UNCHANGED << sequences, sequences_source, current_fasta, manager_open, viewVars >>
    /\ UNCHANGED otherVars

\* an on_toggle_motif without self.figures.clear()
OnToggleMotifKeepsFigures(seq, checked) ==
    /\ manager_open
    /\ LET changed == IF checked THEN ~Contains(motifs, seq) ELSE Contains(motifs, seq) IN
       /\ motifs' = IF ~changed THEN motifs
                    ELSE IF checked THEN unique_preserve_order(Append(motifs, seq))
                    ELSE SelectSeq(motifs, LAMBDA m : m # seq)
       /\ IF changed
          THEN analysis_result' = None
          ELSE UNCHANGED analysis_result
    /\ UNCHANGED figures
    /\ matcher_calls' = 0
    /\ UNCHANGED << sequences, sequences_source, current_fasta, manager_open, viewVars >>
    /\ UNCHANGED otherVars

\* open_motif_manager.on_toggle_motif
OnToggleMotif(seq, checked) ==
    /\ manager_open
    /\ LET changed == IF checked THEN ~Contains(motifs, seq) ELSE Contains(motifs, seq) IN
       /\ motifs' = IF ~changed THEN motifs
                    ELSE IF checked THEN unique_preserve_order(Append(motifs, seq))
                    ELSE SelectSeq(motifs, LAMBDA m : m # seq)
       /\ IF changed
          THEN analysis_result' = None /\ figures' = {}
          ELSE UNCHANGED << analysis_result, figures >>
    /\ matcher_calls' = 0
    /\ UNCHANGED << sequences, sequences_source, current_fasta, manager_open, viewVars >>
    /\ UNCHANGED otherVars

\* run_analysis with the views it renders, mode being what
\* self.normalization_mode holds
RunAnalysisBody(mode) ==
    IF sequences = <<>> \/ motifs = <<>>
    THEN /\ matcher_calls' = 0
         /\ UNCHANGED << analysis_result, figures, viz_top >>
    ELSE LET computed == compute_analysis(sequences, motifs, current_fasta) IN
         /\ matcher_calls' = Len(computed.calls)
         /\ IF computed.status = "ok"
            THEN LET drawn == draw_visualization(computed.val, mode, figures) IN
                 /\ analysis_result' = computed.val
                 /\ viz_top' = drawn.viz_top
                 /\ figures' = drawn.figures
            ELSE UNCHANGED << analysis_result, figures, viz_top >>

\* run_analysis from the menu
RunAnalysis ==
    /\ ~manager_open
    /\ RunAnalysisBody(normalization_mode)
    /\ UNCHANGED << sequences, sequences_source, current_fasta, motifs, manager_open,
                    normalization_mode, selected_sequence, selected_motif, close_barplot_btn >>
    /\ UNCHANGED otherVars

\* a mode radio button of the results tab: the variable takes the value of
\* the button, then run_analysis runs
SelectModeResults(mode) ==
    /\ ~manager_open
    /\ normalization_mode' = mode
    /\ RunAnalysisBody(mode)
    /\ UNCHANGED << sequences, sequences_source, current_fasta, motifs, manager_open,
                    selected_sequence, selected_motif, close_barplot_btn >>
    /\ UNCHANGED otherVars

\* a mode radio button of the visualization tab: the variable takes the
\* value of the button, then refresh_visualization runs; an exception of a
\* bar plot ends the handler
SelectModeViz(mode) ==
    /\ ~manager_open
    /\ normalization_mode' = mode
    /\ LET drawn == draw_visualization(analysis_result, mode, figures)
           v0 == [figures |-> drawn.figures, btn |-> close_barplot_btn, raised |-> FALSE]
           v1 == draw_barplot_sequence(v0, analysis_result, selected_sequence)
           v2 == IF v1.raised THEN v1
                 ELSE draw_barplot_motif(v1, analysis_result, selected_motif)
       IN  /\ viz_top' = drawn.viz_top
           /\ figures' = v2.figures
           /\ close_barplot_btn' = v2.btn
    /\ matcher_calls' = 0
    /\ UNCHANGED << sequences, sequences_source, current_fasta, motifs, analysis_result, manager_open,
                    selected_sequence, selected_motif >>
    /\ UNCHANGED otherVars

\* on_pick: a click on the tick label text of the heatmap shown
OnPick(text) ==
    /\ ~manager_open
    /\ viz_top # None
    /\ \/ \E k \in 1..Len(viz_top.val.seq_ids) : viz_top.val.seq_ids[k] = text
       \/ \E k \in 1..Len(viz_top.val.motifs) : viz_top.val.motifs[k] = text
    /\ LET v0 == [figures |-> figures, btn |-> close_barplot_btn, raised |-> FALSE] IN
       IF DictHas(sequences, text)
       THEN LET v1 == draw_barplot_sequence(v0, analysis_result, Some(text)) IN
            /\ selected_sequence' = Some(text)
            /\ figures' = v1.figures
            /\ close_barplot_btn' = v1.btn
            /\ UNCHANGED selected_motif
       ELSE IF Contains(motifs, text)
       THEN LET v1 == draw_barplot_motif(v0, analysis_result, Some(text)) IN
            /\ selected_motif' = Some(text)
            /\ figures' = v1.figures
            /\ close_barplot_btn' = v1.btn
            /\ UNCHANGED selected_sequence
       ELSE UNCHANGED << selected_sequence, selected_motif, figures, close_barplot_btn >>
    /\ matcher_calls' = 0
    /\ UNCHANGED << sequences, sequences_source, current_fasta, motifs, analysis_result, manager_open,
                    normalization_mode, viz_top >>
    /\ UNCHANGED otherVars

\* hide_barplot, the command of close_barplot_btn
HideBarplot ==
    /\ ~manager_open
    /\ close_barplot_btn
    /\ close_barplot_btn' = FALSE
    /\ selected_sequence' = None
    /\ selected_motif' = None
    /\ matcher_calls' = 0
    /\ UNCHANGED << sequences, sequences_source, current_fasta, motifs, analysis_result, figures, manager_open,
                    normalization_mode, viz_top >>
    /\ UNCHANGED otherVars

\* open_motif_manager.run_and_close: the window is destroyed and
\* run_analysis runs from the timer
RunAndClose ==
    /\ manager_open
    /\ sequences # <<>> /\ motifs # <<>>
    /\ manager_open' = FALSE
    /\ RunAnalysisBody(normalization_mode)
    /\ UNCHANGED << sequences, sequences_source, current_fasta, motifs,
                    normalization_mode, selected_sequence, selected_motif, close_barplot_btn >>
    /\ UNCHANGED otherVars

\* the tick labels the user clicks: one of a sequence and one of a motif
PickTexts == { << "s", "1" >>, << "A", "T", "G" >> }

Next ==
    \/ \E path \in AppPaths \cup {""}, lines \in FastaTexts : GuiLoadFile(path, lines)
    \/ \E fasta_text \in NcbiTexts, out_path \in NcbiPaths \cup {""} : DownloadNcbi(fasta_text, out_path)
    \/ OpenMotifManager
    \/ CloseMotifManager
    \/ \E entry \in MotifEntries : AddMotif(entry)
    \/ RemoveSelected
    \/ \E confirmed \in BOOLEAN : ClearAll(confirmed)
    \/ \E tokens \in ImportedTokenLists : AddImportedTokens(tokens)
    \/ \E seq \in ClickedReferenceMotifs, checked \in BOOLEAN : OnToggleMotif(seq, checked)
    \/ RunAnalysis
    \/ \E mode \in { mode_raw, mode_norm } : SelectModeResults(mode)
    \/ \E mode \in { mode_raw, mode_norm } : SelectModeViz(mode)
    \/ \E text \in PickTexts : OnPick(text)
    \/ HideBarplot
    \/ RunAndClose

Spec == InitApp /\ [][Next]_vars

\* ------------------------------------------------------------------------
\* The export tab (export_tab.py, class ExportTab) in the application
\* ------------------------------------------------------------------------
\* the path the save dialog returns ("" when cancelled)
ExportPaths == { "out" }

\* a click on a radio button of the results box: the variable takes the
\* value of the button
SelectSep(value) ==
    /\ ~manager_open
    /\ x_sep' = value
    /\ UNCHANGED << x_mode, x_layout, x_rep_fmt, x_rep_mode, x_rep_table, x_call, x_out,
                    matcherVars, loaderVars, engineVars, appVars >>

SelectMode(value) ==
    /\ ~manager_open
    /\ x_mode' = value
    /\ UNCHANGED << x_sep, x_layout, x_rep_fmt, x_rep_mode, x_rep_table, x_call, x_out,
                    matcherVars, loaderVars, engineVars, appVars >>

SelectLayout(value) ==
    /\ ~manager_open
    /\ x_layout' = value
    /\ UNCHANGED << x_sep, x_mode, x_rep_fmt, x_rep_mode, x_rep_table, x_call, x_out,
                    matcherVars, loaderVars, engineVars, appVars >>

\* a click on a radio button or the check box of the report box
SelectRepFmt(value) ==
    /\ ~manager_open
    /\ x_rep_fmt' = value
    /\ UNCHANGED << x_sep, x_mode, x_layout, x_rep_mode, x_rep_table, x_call, x_out,
                    matcherVars, loaderVars, engineVars, appVars >>

SelectRepMode(value) ==
    /\ ~manager_open
    /\ x_rep_mode' = value
    /\ UNCHANGED << x_sep, x_mode, x_layout, x_rep_fmt, x_rep_table, x_call, x_out,
                    matcherVars, loaderVars, engineVars, appVars >>

SelectRepTable(value) ==
    /\ ~manager_open
    /\ x_rep_table' = value
    /\ UNCHANGED << x_sep, x_mode, x_layout, x_rep_fmt, x_rep_mode, x_call, x_out,
                    matcherVars, loaderVars, engineVars, appVars >>

\* an _export_results that writes an empty file when there is no result
TabExportResultsWithoutCheck(path) ==
    /\ ~manager_open
    /\ IF path = ""
       THEN UNCHANGED << x_call, x_out >>
       ELSE /\ x_call' = Some([fn |-> "export_results_csv", sep |-> x_sep,
                                mode |-> Some(x_mode), layout |-> x_layout,
                                include_sum |-> TRUE])
            /\ x_out' = IF analysis_result = None
                         THEN [status |-> "ok", msg |-> "", file |-> Some(<<>>)]
                         ELSE export_results_csv(analysis_result, x_sep, Some(x_mode),
                                                 x_layout, TRUE)
    /\ UNCHANGED << x_sep, x_mode, x_layout, x_rep_fmt, x_rep_mode, x_rep_table,
                    matcherVars, loaderVars, engineVars >>
    /\ matcher_calls' = 0
    /\ UNCHANGED << sequences, sequences_source, current_fasta, motifs, analysis_result,
                    figures, manager_open, viewVars >>

\* ExportTab._export_results: get_result() is self.analysis_result of the
\* application, the save dialog returns path
TabExportResults(path) ==
    /\ ~manager_open
    /\ IF analysis_result = None \/ path = ""
       THEN UNCHANGED << x_call, x_out >>
       ELSE /\ x_call' = Some([fn |-> "export_results_csv", sep |-> x_sep,
                                mode |-> Some(x_mode), layout |-> x_layout,
                                include_sum |-> TRUE])
            /\ x_out' = export_results_csv(analysis_result, x_sep, Some(x_mode),
                                            x_layout, TRUE)
    /\ UNCHANGED << x_sep, x_mode, x_layout, x_rep_fmt, x_rep_mode, x_rep_table,
                    matcherVars, loaderVars, engineVars >>
    /\ matcher_calls' = 0
    /\ UNCHANGED << sequences, sequences_source, current_fasta, motifs, analysis_result,
                    figures, manager_open, viewVars >>

\* ExportTab._export_report
TabExportReport(path) ==
    /\ ~manager_open
    /\ IF analysis_result = None \/ path = ""
       THEN UNCHANGED << x_call, x_out >>
       ELSE /\ x_call' = Some([fn |-> "export_report", mode |-> Some(x_rep_mode),
                                fmt |-> x_rep_fmt, include_table |-> x_rep_table,
                                table_max_rows |-> table_max_rows_default])
            /\ x_out' = export_report(analysis_result, Some(x_rep_mode), x_rep_fmt,
                                       x_rep_table, table_max_rows_default)
    /\ UNCHANGED << x_sep, x_mode, x_layout, x_rep_fmt, x_rep_mode, x_rep_table,
                    matcherVars, loaderVars, engineVars >>
    /\ matcher_calls' = 0
    /\ UNCHANGED << sequences, sequences_source, current_fasta, motifs, analysis_result,
                    figures, manager_open, viewVars >>

\* the motif typed in the manager and the files opened while the tab is
\* in use
ExportTabEntries == { << "a", "t", "g" >> }
ExportTabTexts ==
    { << << ">", "s", "1" >>, << "A", "T", "G", "C", "G", "T", "A", "T", "G" >> >> }

NextExportTab ==
    \/ \E path \in AppPaths, lines \in ExportTabTexts : GuiLoadFile(path, lines)
    \/ \E fasta_text \in NcbiTexts, out_path \in NcbiPaths : DownloadNcbi(fasta_text, out_path)
    \/ OpenMotifManager
    \/ CloseMotifManager
    \/ \E entry \in ExportTabEntries : AddMotif(entry)
    \/ \E confirmed \in { TRUE } : ClearAll(confirmed)
    \/ RunAnalysis
    \/ RunAndClose
    \/ \E value \in { "," } : SelectSep(value)
    \/ \E value \in { mode_raw, mode_norm } : SelectMode(value)
    \/ \E value \in { "long" } : SelectLayout(value)
    \/ \E value \in { "html" } : SelectRepFmt(value)
    \/ \E value \in { mode_norm } : SelectRepMode(value)
    \/ \E value \in { FALSE } : SelectRepTable(value)
    \/ \E path \in ExportPaths \cup {""} : TabExportResults(path)
    \/ \E path \in ExportPaths \cup {""} : TabExportReport(path)

SpecExportTab == InitApp /\ [][NextExportTab]_vars

\* ------------------------------------------------------------------------
\* Properties of the matcher
\* ------------------------------------------------------------------------
IupacSymbols == {"A", "C", "G", "T", "U", "R", "Y", "S", "W", "K", "M", "B", "D", "H", "V", "N"}

\* every character of s, uppercased, is an IUPAC symbol
OverIupac(s) == \A k \in 1..Len(s) : upper(s[k]) \in IupacSymbols

\* the 4-bit mask of a character after uppercasing and U -> T
MaskOf(c) == IUPAC_MASK[IF upper(c) = "U" THEN "T" ELSE upper(c)]

\* the set bits of a 4-bit mask
SetBits(mask) == { b \in 0..3 : (mask \div (2 ^ b)) % 2 = 1 }

\* the offsets at which every motif position shares a set bit with the sequence
MatchingOffsets(sequence, motif) ==
    { i \in 0..(Len(sequence) - Len(motif)) :
        \A j \in 0..(Len(motif) - 1) :
            SetBits(MaskOf(sequence[i + j + 1])) \cap SetBits(MaskOf(motif[j + 1])) # {} }

StrictlyAscending(s) == \A k \in 1..(Len(s) - 1) : s[k] < s[k + 1]

Elements(s) == { s[k] : k \in 1..Len(s) }

\* C2: for a sequence and a non-empty motif over the IUPAC alphabet,
\* iupac_find_positions returns the strictly ascending list of exactly the
\* offsets i in [0, len(sequence) - len(motif)] at which, for every j, the
\* masks of sequence[i+j] and motif[j] share a set bit; matches may overlap.
C2_AllOverlappingOffsets ==
    (/\ m_positions.status # "pending"
     /\ m_motif # <<>>
     /\ OverIupac(m_sequence)
     /\ OverIupac(m_motif))
    => /\ m_positions.status = "ok"
       /\ StrictlyAscending(m_positions.val)
       /\ Elements(m_positions.val) = MatchingOffsets(m_sequence, m_motif)

\* motif AAA in sequence AAAA gives [0, 1]
C2_Witness ==
    /\ m_sequence = <<"A", "A", "A", "A">>
    /\ m_motif = <<"A", "A", "A">>
    /\ m_positions = Ok(<<0, 1>>)

\* C3: for all sequence/motif pairs, empty strings and strings with
\* characters outside the IUPAC alphabet included, iupac_count(sequence,
\* motif) equals len(iupac_find_positions(sequence, motif)).
C3_CountEqualsNumberOfPositions ==
    (m_positions.status # "pending" /\ m_count.status # "pending")
    => /\ m_positions.status = "ok"
       /\ m_count.status = "ok"
       /\ m_count.val = Len(m_positions.val)

\* C7: iupac_find_positions fails with an error identifying the offending
\* symbol whenever a character outside the IUPAC alphabet occurs in the
\* sequence or in the motif.
C7_UnknownSymbolFails ==
    (/\ m_positions.status # "pending"
     /\ (~OverIupac(m_sequence) \/ ~OverIupac(m_motif)))
    => /\ m_positions.status = "error"
       /\ upper(m_positions.what) \notin IupacSymbols

\* C8: iupac_find_positions returns the empty list whenever the sequence is
\* empty, the motif is empty, or the motif is longer than the sequence.
C8_EmptyOrTooLongGivesEmptyList ==
    (/\ m_positions.status # "pending"
     /\ (m_sequence = <<>> \/ m_motif = <<>> \/ Len(m_motif) > Len(m_sequence)))
    => m_positions = Ok(<<>>)

\* C19: matches_iupac is symmetric on the IUPAC symbols, N matches every
\* IUPAC symbol in either argument, and A does not match T.
C19_MatchRelationSymmetric ==
    /\ (/\ c_match.status = "ok" /\ c_swapped.status = "ok"
        /\ upper(c_seq_char) \in IupacSymbols /\ upper(c_motif_char) \in IupacSymbols)
       => c_match.val = c_swapped.val
    /\ (/\ c_match.status = "ok"
        /\ c_seq_char \in IupacSymbols /\ c_motif_char \in IupacSymbols
        /\ "N" \in {c_seq_char, c_motif_char})
       => c_match.val = TRUE
    /\ (c_match.status = "ok" /\ c_seq_char = "A" /\ c_motif_char = "T")
       => c_match.val = FALSE

\* R as seq_char and N as motif_char match in both orders
C19_Witness ==
    /\ c_seq_char = "R"
    /\ c_motif_char = "N"
    /\ c_match = Ok(TRUE)
    /\ c_swapped = Ok(TRUE)

\* ------------------------------------------------------------------------
\* Properties of the loader
\* ------------------------------------------------------------------------
IsHeaderLine(line) == Strip(line) # <<>> /\ Head(Strip(line)) = ">"
IsSequenceLine(line) == Strip(line) # <<>> /\ Head(Strip(line)) # ">"
HeaderText(line) == Strip(Tail(Strip(line)))
HeaderIndices(lines) == { k \in 1..Len(lines) : IsHeaderLine(lines[k]) }

\* the index of the n-th header line
NthHeader(lines, n) ==
    CHOOSE k \in HeaderIndices(lines) :
        Cardinality({ j \in HeaderIndices(lines) : j <= k }) = n

\* the last line of the record whose header is line h
RecordEnd(lines, h) ==
    IF \E k \in HeaderIndices(lines) : k > h
    THEN (CHOOSE k \in HeaderIndices(lines) :
             k > h /\ \A j \in HeaderIndices(lines) : j > h => k <= j) - 1
    ELSE Len(lines)

\* uppercase, U to T, '-' and '.' removed, '?' to N, whitespace and digits removed
NormalizedChar(c) ==
    IF c \in {"-", "."} \/ IsSpace(c) \/ IsDigit(c) THEN <<>>
    ELSE IF upper(c) = "U" THEN << "T" >>
    ELSE IF c = "?" THEN << "N" >>
    ELSE << upper(c) >>

RECURSIVE NormalizedText(_)
NormalizedText(line) ==
    IF line = <<>> THEN <<>> ELSE NormalizedChar(Head(line)) \o NormalizedText(Tail(line))

RECURSIVE NormalizedLines(_, _, _)
NormalizedLines(lines, from, to) ==
    IF from > to THEN <<>>
    ELSE NormalizedText(lines[from]) \o NormalizedLines(lines, from + 1, to)

\* C5: on input the loader accepts, the ids of the mapping are the trimmed
\* header texts in file order, and the value of each id is the concatenation,
\* in file order, of the record's sequence lines after normalisation
\* (uppercase, U to T, '-' and '.' removed, '?' to N, whitespace and digits
\* removed).
C5_IdsAndNormalizedSequencesInFileOrder ==
    l_result.status = "ok"
    => /\ Len(l_result.val) = Cardinality(HeaderIndices(l_lines))
       /\ \A n \in 1..Len(l_result.val) :
            LET h == NthHeader(l_lines, n) IN
            /\ l_result.val[n].id = HeaderText(l_lines[h])
            /\ l_result.val[n].seq = NormalizedLines(l_lines, h + 1, RecordEnd(l_lines, h))

\* '>seq1 / ATGC / >seq2 / atgcn' yields seq1 -> ATGC, seq2 -> ATGCN
C5_Witness ==
    /\ l_lines = << << ">", "s", "e", "q", "1" >>, << "A", "T", "G", "C" >>,
                    << ">", "s", "e", "q", "2" >>, << "a", "t", "g", "c", "n" >> >>
    /\ l_result = Ok(<< [id |-> << "s", "e", "q", "1" >>, seq |-> << "A", "T", "G", "C" >>],
                        [id |-> << "s", "e", "q", "2" >>, seq |-> << "A", "T", "G", "C", "N" >>] >>)

HasEmptyHeader(lines) ==
    \E k \in HeaderIndices(lines) : HeaderText(lines[k]) = <<>>

HasDuplicateId(lines) ==
    \E j, k \in HeaderIndices(lines) : j < k /\ HeaderText(lines[j]) = HeaderText(lines[k])

HasSequenceBeforeHeader(lines) ==
    \E k \in 1..Len(lines) :
        IsSequenceLine(lines[k]) /\ \A h \in HeaderIndices(lines) : h > k

\* c stays in the line after the loader's normalisation and is no DNA symbol
IsInvalidChar(c) ==
    /\ c \notin {"-", ".", " ", "\t"}
    /\ ~IsDigit(c)
    /\ (IF upper(c) = "U" THEN "T" ELSE IF c = "?" THEN "N" ELSE upper(c))
         \notin (IupacSymbols \ {"U"})

HasInvalidChar(lines) ==
    \E k \in 1..Len(lines) :
        /\ IsSequenceLine(lines[k])
        /\ \E p \in 1..Len(Strip(lines[k])) : IsInvalidChar(Strip(lines[k])[p])

HasNoRecord(lines) == HeaderIndices(lines) = {}

MatcherSucceedsOnAllPairs(seq_dict, motif_list) ==
    \A i \in 1..Len(seq_dict), j \in 1..Len(motif_list) :
        iupac_count(seq_dict[i].seq, motif_list[j]).status = "ok"

\* C4: for a non-empty sequence collection and a non-empty motif list,
\* compute_analysis returns a result whose seq_ids are the sequence ids in
\* insertion order, whose motifs are the motif list in order, whose
\* raw_counts has shape (len(seq_ids), len(motifs)) with raw[i][j] the
\* matcher's count of motif j in sequence i, and whose seq_lengths[i] is
\* len(sequence i); the matcher is invoked exactly once per pair.
C4_ResultHoldsCountsOfEveryPair ==
    (/\ e_result.status # "pending"
     /\ e_sequences # <<>>
     /\ e_motifs # <<>>
     /\ MatcherSucceedsOnAllPairs(e_sequences, e_motifs))
    => /\ e_result.status = "ok"
       /\ e_result.val.seq_ids = [i \in 1..Len(e_sequences) |-> e_sequences[i].id]
       /\ e_result.val.motifs = e_motifs
       /\ Len(e_result.val.raw_counts) = Len(e_sequences)
       /\ Len(e_result.val.seq_lengths) = Len(e_sequences)
       /\ \A i \in 1..Len(e_sequences) :
            /\ Len(e_result.val.raw_counts[i]) = Len(e_motifs)
            /\ e_result.val.seq_lengths[i] = Len(e_sequences[i].seq)
            /\ \A j \in 1..Len(e_motifs) :
                 /\ e_result.val.raw_counts[i][j]
                      = iupac_count(e_sequences[i].seq, e_motifs[j]).val
                 /\ Cardinality({ k \in 1..Len(e_result.calls) :
                                    e_result.calls[k] = << i - 1, j - 1 >> }) = 1
       /\ Len(e_result.calls) = Len(e_sequences) * Len(e_motifs)

\* sequences {s1: ATGCGTATG, s2: AAAA}, motifs [ATG, AA]: raw [[2, 0], [0, 3]],
\* seq_lengths [9, 4]
C4_Witness ==
    /\ e_sequences = << [id |-> << "s", "1" >>,
                         seq |-> << "A", "T", "G", "C", "G", "T", "A", "T", "G" >>],
                        [id |-> << "s", "2" >>, seq |-> << "A", "A", "A", "A" >>] >>
    /\ e_motifs = << << "A", "T", "G" >>, << "A", "A" >> >>
    /\ e_result.status = "ok"
    /\ e_result.val.raw_counts = << << 2, 0 >>, << 0, 3 >> >>
    /\ e_result.val.seq_lengths = << 9, 4 >>

\* s has a character outside the IUPAC alphabet
HasUnknownSymbol(s) == ~OverIupac(s)

\* C9: whenever a sequence or a motif passed to compute_analysis has a
\* character outside the IUPAC alphabet, the matcher fails with an error
\* naming the offending symbol and compute_analysis returns no result, also
\* for pairs whose other string is empty or whose motif is longer than the
\* sequence: no zero count stands in for an invalid character.
C9_UnknownSymbolNeverCountsAsZero ==
    (/\ e_result.status # "pending"
     /\ e_sequences # <<>>
     /\ e_motifs # <<>>
     /\ \/ \E i \in 1..Len(e_sequences) : HasUnknownSymbol(e_sequences[i].seq)
        \/ \E j \in 1..Len(e_motifs) : HasUnknownSymbol(e_motifs[j]))
    => /\ e_result.status = "error"
       /\ e_result.msg = "Nieznany symbol IUPAC"
       /\ e_result.what \notin IupacSymbols

\* the result compute_analysis returned for the arguments of the engine
ResultAtAnalysisTime == compute_analysis(e_sequences, e_motifs, e_fasta_path).val

\* x is the float of the fraction n / d, d > 0
IsFraction(x, n, d) == x.den > 0 /\ x.num * d = n * x.den

\* the larger of a and b
Max(a, b) == IF a >= b THEN a ELSE b

\* C12: in mode "norm" matrix returns in cell (i, j) the value
\* raw[i][j] * 1000 / max(seq_lengths[i], 1); raw 3 with length 1500 gives
\* 2.0; for a sequence of length 0 every raw count and every normalized
\* value is 0, and no division by zero occurs.
C12_NormIsCountPerThousand ==
    /\ (e_matrix.status = "ok" /\ e_mode = Some(mode_norm))
       => \A i \in 1..Len(e_result.val.seq_ids) :
            /\ Len(e_matrix.val[i]) = Len(e_result.val.motifs)
            /\ \A j \in 1..Len(e_result.val.motifs) :
                 /\ IsFraction(e_matrix.val[i][j],
                               e_result.val.raw_counts[i][j] * 1000,
                               Max(e_result.val.seq_lengths[i], 1))
                 /\ Len(e_sequences[i].seq) = 0 => e_matrix.val[i][j] = Float(0)
    /\ e_result.status = "ok"
       => \A i \in 1..Len(e_sequences) :
            Len(e_sequences[i].seq) = 0
            => \A j \in 1..Len(e_motifs) : e_result.val.raw_counts[i][j] = 0
    /\ matrix([raw_counts |-> << << 3 >> >>, seq_lengths |-> << 1500 >>],
              Some(mode_norm)).val = << << Float(2) >> >>

\* sequences {s1: AAAA, s2: ""}, motifs [AA]: norm gives [[750.0], [0.0]]
C12_Witness ==
    /\ e_sequences = << [id |-> << "s", "1" >>, seq |-> << "A", "A", "A", "A" >>],
                        [id |-> << "s", "2" >>, seq |-> <<>>] >>
    /\ e_motifs = << << "A", "A" >> >>
    /\ e_mode = Some(mode_norm)
    /\ e_matrix = Ok(<< << Float(750) >>, << Float(0) >> >>)

\* C13: matrix fails, with an error naming the mode and the two valid
\* options, for every mode value other than "raw" and "norm", the empty
\* string, an absent value and case variants such as "RAW" included, and
\* returns no matrix then.
C13_OtherModesFail ==
    (e_matrix.status # "pending" /\ e_mode \notin { Some(mode_raw), Some(mode_norm) })
    => /\ e_matrix.status = "error"
       /\ e_matrix.msg = "Nieznany tryb: {mode}. Dozwolone: raw, norm"

\* C14: after any number of calls of matrix in any order of modes, failed
\* calls included, raw_counts and seq_lengths of the result are what
\* compute_analysis computed, and a call in mode "raw" returns exactly these
\* counts.
C14_MatrixKeepsTheCounts ==
    e_result.status = "ok"
    => /\ e_result.val.raw_counts = ResultAtAnalysisTime.raw_counts
       /\ e_result.val.seq_lengths = ResultAtAnalysisTime.seq_lengths
       /\ (e_matrix.status = "ok" /\ e_mode = Some(mode_raw))
          => e_matrix.val =
               [i \in 1..Len(e_sequences) |->
                  [j \in 1..Len(e_motifs) |->
                     Float(iupac_count(e_sequences[i].seq, e_motifs[j]).val)]]

\* the third call of matrix on the result for {s1: AAAA} and [AA], in mode
\* "raw", returns [[3.0]]
C14_Witness ==
    /\ e_sequences = << [id |-> << "s", "1" >>, seq |-> << "A", "A", "A", "A" >>] >>
    /\ e_motifs = << << "A", "A" >> >>
    /\ e_matrix_calls = 3
    /\ e_mode = Some(mode_raw)
    /\ e_matrix = Ok(<< << Float(3) >> >>)

\* C18: compute_analysis fails with a descriptive error and returns no
\* result when the sequence collection is empty or the motif list is empty,
\* and calls the matcher for no pair.
C18_EmptyInputFails ==
    (e_result.status # "pending" /\ (e_sequences = <<>> \/ e_motifs = <<>>))
    => /\ e_result.status = "error"
       /\ e_result.msg = (IF e_sequences = <<>> THEN "Brak sekwencji do analizy."
                          ELSE "Brak motywow do analizy.")
       /\ e_result.calls = <<>>

\* sequences {s1: AAAA} and no motif: the error on motifs, no call of the matcher
C18_Witness ==
    /\ e_sequences = << [id |-> << "s", "1" >>, seq |-> << "A", "A", "A", "A" >>] >>
    /\ e_motifs = <<>>
    /\ e_result.status = "error"
    /\ e_result.msg = "Brak motywow do analizy."
    /\ e_result.calls = <<>>

\* ------------------------------------------------------------------------
\* Properties of the application
\* ------------------------------------------------------------------------
\* C1: in every reachable state the current analysis result is absent, or
\* its seq_ids are the ids of the current sequence collection and its motifs
\* are the current motif list: no stale result is kept.
C1_NoStaleResult ==
    analysis_result # None
    => /\ analysis_result.seq_ids = [k \in 1..Len(sequences) |-> sequences[k].id]
       /\ analysis_result.motifs = motifs

Dna15 == {"A", "C", "G", "T", "R", "Y", "S", "W", "K", "M", "B", "D", "H", "V", "N"}

\* C10: in every reachable state every character of every stored sequence
\* and of every motif in the motif list is one of the 15 uppercase IUPAC DNA
\* symbols; no other character (U included) persists.
C10_StoredTextOverDnaAlphabet ==
    /\ \A k \in 1..Len(sequences) :
         \A p \in 1..Len(sequences[k].seq) : sequences[k].seq[p] \in Dna15
    /\ \A k \in 1..Len(motifs) :
         \A p \in 1..Len(motifs[k]) : motifs[k][p] \in Dna15

\* every character of s is a key of the mask table
OverMaskTable(s) == \A p \in 1..Len(s) : s[p] \in DOMAIN IUPAC_MASK

\* C11: in every reachable state every character of every stored sequence
\* and of every motif of the list is a key of the matcher's mask table, and
\* run_analysis, when it has sequences and motifs, gets a result from
\* compute_analysis: the matcher's unknown-symbol error does not occur.
C11_MatcherNeverSeesUnknownSymbol ==
    /\ \A k \in 1..Len(sequences) : OverMaskTable(sequences[k].seq)
    /\ \A k \in 1..Len(motifs) : OverMaskTable(motifs[k])
    /\ (sequences # <<>> /\ motifs # <<>>)
       => compute_analysis(sequences, motifs, current_fasta).status = "ok"

\* run_analysis has counted the motif AUG, accepted by the validator, in
\* the loaded sequences
C11_Witness ==
    /\ analysis_result # None
    /\ Contains(analysis_result.motifs, << "A", "U", "G" >>)
    /\ analysis_result.motifs = motifs
    /\ matcher_calls > 0

\* C15: a step that switches the display mode, in the results tab or in the
\* visualization tab, makes no call of the matcher and keeps the current
\* result; a heatmap drawn in the step shows the values matrix derives from
\* that result.
C15_ModeSwitchNeverCallsMatcher ==
    [][(normalization_mode' # normalization_mode)
       => /\ matcher_calls' = 0
          /\ analysis_result' = analysis_result
          /\ (viz_top' # None /\ viz_top' # viz_top)
             => /\ analysis_result # None
                /\ viz_top'.val.data
                     = matrix(analysis_result, Some(normalization_mode')).val]_vars

\* C16: a gui_load_file whose load fails leaves the sequence collection, the
\* current file path, the current result and the figures as they were.
C16_FailedLoadLeavesState ==
    [][(\E path \in AppPaths, lines \in FastaTexts :
           /\ load_fasta(lines).status = "error"
           /\ GuiLoadFile(path, lines))
       => UNCHANGED << sequences, current_fasta, analysis_result, figures >>]_vars

\* C17: a held result changes only by being replaced with the result of a
\* new compute_analysis, in a step that leaves the sequence collection and
\* the motif list alone; a change in place of the collection or of the list
\* (pop, clear, append) leaves seq_ids, motifs, raw_counts and seq_lengths of
\* the held result as they were.
C17_ResultNotAliased ==
    [][(analysis_result # None /\ analysis_result' # None /\ analysis_result' # analysis_result)
       => /\ sequences' = sequences
          /\ motifs' = motifs
          /\ LET computed == compute_analysis(sequences, motifs, current_fasta) IN
             computed.status = "ok" /\ analysis_result' = computed.val]_vars

\* a result for s1 and ATG is held after the sequence collection was cleared
\* and the motif was popped from the list
C17_Witness ==
    /\ analysis_result # None
    /\ analysis_result.seq_ids = << << "s", "1" >> >>
    /\ analysis_result.motifs = << << "A", "T", "G" >> >>
    /\ sequences = <<>>
    /\ motifs = <<>>

\* C20: in every reachable state the motif list has no two equal motifs and
\* every motif in it is non-empty, in upper case, free of whitespace and at
\* least 2 symbols long.
C20_MotifListNormalized ==
    /\ \A j, k \in 1..Len(motifs) : j # k => motifs[j] # motifs[k]
    /\ \A k \in 1..Len(motifs) :
         /\ motifs[k] # <<>>
         /\ Len(motifs[k]) >= 2
         /\ \A p \in 1..Len(motifs[k]) :
              upper(motifs[k][p]) = motifs[k][p] /\ ~IsSpace(motifs[k][p])

\* AUG typed as ' A uG' and ATG from the reference list, the window closed
C20_Witness ==
    /\ motifs = << << "A", "U", "G" >>, << "A", "T", "G" >> >>
    /\ ~manager_open

\* C21: the source path stamped into a new result, when present, is the
\* path the analysed sequences were loaded from, and it is present when
\* they were loaded from a file chosen in the open dialog.
C21_StampedPathIsSourceOfSequences ==
    [][(analysis_result' # None /\ analysis_result' # analysis_result)
       => LET stamped == analysis_result'.fasta_path IN
          /\ stamped # None => stamped = sequences_source
          /\ (sequences_source # None /\ sequences_source.val \in AppPaths)
             => stamped = sequences_source]_vars

\* C25: a remove_selected that removes a motif sets the result to absent
\* and clears the figures.
C25_RemoveSelectedInvalidates ==
    [][(RemoveSelected /\ motifs' # motifs)
       => (analysis_result' = None /\ figures' = {})]_vars

\* C26: an NCBI download that replaces the sequence collection sets the
\* result to absent and clears the figures.
C26_DownloadInvalidates ==
    [][(\E fasta_text \in NcbiTexts, out_path \in NcbiPaths :
           /\ StartsWithHeader(fasta_text)
           /\ load_fasta(fasta_text).status = "ok"
           /\ DownloadNcbi(fasta_text, out_path))
       => (analysis_result' = None /\ figures' = {})]_vars

\* a step of the motif manager that adds, imports or toggles nothing, or
\* that opens or closes the window
ManagerStepWithoutChange ==
    \/ \E entry \in MotifEntries :
          /\ ~validate_motif(normalize_motif(entry)) \/ Contains(motifs, normalize_motif(entry))
          /\ AddMotif(entry)
    \/ \E tokens \in ImportedTokenLists :
          /\ ImportLoop(tokens, motifs, 0).added = 0
          /\ AddImportedTokens(tokens)
    \/ \E seq \in ClickedReferenceMotifs, checked \in BOOLEAN :
          /\ checked <=> Contains(motifs, seq)
          /\ OnToggleMotif(seq, checked)
    \/ OpenMotifManager
    \/ CloseMotifManager

\* C27: a motif-manager step that does not change the motif list leaves
\* the motif list, the result and the figures as they were.
C27_NoChangeLeavesResult ==
    [][ManagerStepWithoutChange
       => UNCHANGED << motifs, analysis_result, figures >>]_vars

\* the manager is open over a result and its figures: it was opened, and
\* nothing was changed in it, after an analysis
C27_Witness ==
    /\ manager_open
    /\ analysis_result # None
    /\ figures # {}
    /\ motifs = analysis_result.motifs

\* C28: while the result is absent the figures offered for export are
\* empty.
C28_NoFiguresWithoutResult ==
    analysis_result = None => figures = {}

\* the result is absent and the figures are empty while the heatmap of an
\* earlier analysis is still shown: figures were drawn and then cleared
C28_Witness ==
    /\ analysis_result = None
    /\ figures = {}
    /\ viz_top # None

\* ------------------------------------------------------------------------
\* Properties of the export functions
\* ------------------------------------------------------------------------
\* text.split(sep)
RECURSIVE SplitLoop(_, _, _, _)
SplitLoop(text, sep, field, out) ==
    IF text = <<>> THEN Append(out, field)
    ELSE IF Head(text) = sep THEN SplitLoop(Tail(text), sep, <<>>, Append(out, field))
    ELSE SplitLoop(Tail(text), sep, Append(field, Head(text)), out)

Split(text, sep) == SplitLoop(text, sep, <<>>, <<>>)

\* the last n fields of a line
LastFields(line, sep, n) ==
    LET f == Split(line, sep) IN SubSeq(f, Len(f) - n + 1, Len(f))

DigitValue(c) == CHOOSE d \in 0..9 : << "0", "1", "2", "3", "4", "5", "6", "7", "8", "9" >>[d + 1] = c

\* the number a text of decimal digits denotes
RECURSIVE ParseInt(_)
ParseInt(t) ==
    IF t = <<>> THEN 0 ELSE 10 * ParseInt(SubSeq(t, 1, Len(t) - 1)) + DigitValue(t[Len(t)])

IsIntegerText(t) == t # <<>> /\ \A k \in 1..Len(t) : IsDigit(t[k])

\* digits, a point, one digit
IsOneDecimalText(t) ==
    /\ Len(t) >= 3
    /\ t[Len(t) - 1] = "."
    /\ IsDigit(t[Len(t)])
    /\ IsIntegerText(SubSeq(t, 1, Len(t) - 2))

\* the tenths a one-decimal text denotes
ParseTenths(t) == 10 * ParseInt(SubSeq(t, 1, Len(t) - 2)) + DigitValue(t[Len(t)])

\* text renders the count n as an integer
RendersCount(text, n) == IsIntegerText(text) /\ ParseInt(text) = n

\* text renders n / d with one decimal digit, the nearest tenth
RendersPerThousand(text, n, d) ==
    /\ IsOneDecimalText(text)
    /\ LET diff == ParseTenths(text) * d - 10 * n
       IN  2 * (IF diff < 0 THEN 0 - diff ELSE diff) <= d

RECURSIVE SumSeq(_)
SumSeq(q) == IF q = <<>> THEN 0 ELSE Head(q) + SumSeq(Tail(q))

\* fields renders the cells of row i of the result, and after them its
\* total when with_total, in the given mode
RendersRow(fields, result, i, mode, with_total) ==
    LET n_mot == Len(result.motifs)
        d == Max(result.seq_lengths[i], 1)
    IN  /\ Len(fields) = n_mot + (IF with_total THEN 1 ELSE 0)
        /\ \A j \in 1..n_mot :
              IF mode = mode_raw
              THEN RendersCount(fields[j], result.raw_counts[i][j])
              ELSE RendersPerThousand(fields[j], result.raw_counts[i][j] * 1000, d)
        /\ with_total =>
              IF mode = mode_raw
              THEN RendersCount(fields[n_mot + 1], SumSeq(result.raw_counts[i]))
              ELSE RendersPerThousand(fields[n_mot + 1], SumSeq(result.raw_counts[i]) * 1000, d)

\* the lines of the table of a report: those after the header line that
\* are neither the notice nor markup
ReportRows(file, result) ==
    LET header == Join(<< << "Sekwencja" >> >> \o result.motifs \o << << "SUMA" >> >>, "\t")
        h == CHOOSE k \in 1..Len(file) : file[k] = header
    IN  SelectSeq(SubSeq(file, h + 1, Len(file)),
                  LAMBDA line : Head(line) \notin { "... (ucieto do ", "</pre>", "</body></html>" })

\* every cell and every total of what the call wrote is rendered in the
\* format of the given mode and has the value of the result
OutputRendersMode(mode) ==
    LET result == e_result.val
        call == x_call.val
        file == x_out.file.val
        n_mot == Len(result.motifs)
    IN  IF call.fn = "export_results_csv" /\ call.layout = "wide"
        THEN \A i \in 1..(Len(file) - 1) :
                RendersRow(LastFields(file[i + 1], call.sep,
                                      n_mot + (IF call.include_sum THEN 1 ELSE 0)),
                           result, i, mode, call.include_sum)
        ELSE IF call.fn = "export_results_csv"
        THEN \A k \in 1..(Len(file) - 1) :
                LET i == ((k - 1) \div n_mot) + 1
                    j == ((k - 1) % n_mot) + 1
                    text == LastFields(file[k + 1], call.sep, 1)[1]
                IN  IF mode = mode_raw
                    THEN RendersCount(text, result.raw_counts[i][j])
                    ELSE RendersPerThousand(text, result.raw_counts[i][j] * 1000,
                                            Max(result.seq_lengths[i], 1))
        ELSE IF call.fn = "export_report"
        THEN call.include_table =>
                LET rows == ReportRows(file, result) IN
                \A i \in 1..Len(rows) :
                    RendersRow(LastFields(rows[i], "\t", n_mot + 1), result, i, mode, TRUE)
        ELSE \A i \in 1..Len(file) :
                RendersRow(SubSeq(file[i], 2, Len(file[i])), result, i, mode, TRUE)

\* the call wrote a table
WroteTable ==
    /\ x_call # None
    /\ x_out.status = "ok"
    /\ x_out.file # None

\* C22: what export_results_csv (both layouts), export_report and
\* render_results_table produce in mode "raw" renders every cell and row
\* total as an integer, and in mode "norm" with exactly one decimal digit,
\* the nearest tenth (a tie going to the even digit: 31.25 gives 31.2).
C22_FormatFollowsMode ==
    /\ (WroteTable /\ x_call.val.mode \in { Some(mode_raw), Some(mode_norm) })
          => OutputRendersMode(x_call.val.mode.val)
    /\ FormatFixed1(Fraction(125, 4)) = << "3", "1", ".", "2" >>
    /\ FormatFixed1(Fraction(375, 4)) = << "9", "3", ".", "8" >>

\* the wide file in mode "norm" of the sequence AAA and the motif AA:
\* 2 * 1000 / 3 is written as 666.7
C22_Witness ==
    /\ x_call = Some([fn |-> "export_results_csv", sep |-> ",", mode |-> Some(mode_norm),
                       layout |-> "wide", include_sum |-> TRUE])
    /\ x_out.status = "ok"
    /\ x_out.file = Some(<< << "Sekwencja", ",", "A", "A", ",", "SUMA" >>,
                            << "s", "1", ",", "6", "6", "6", ".", "7", ",",
                               "6", "6", "6", ".", "7" >> >>)

\* C23: the wide file is a header and one line per sequence, in order,
\* each of one id field, one field per motif and, iff include_sum, the
\* total, separated by sep; the long file is a header and one line
\* (id, motif, value) per pair, in row-major order.
C23_CsvRowsAndFields ==
    (WroteTable /\ x_call.val.fn = "export_results_csv")
       => LET result == e_result.val
              call == x_call.val
              file == x_out.file.val
              n_seq == Len(result.seq_ids)
              n_mot == Len(result.motifs)
          IN  IF call.layout = "wide"
              THEN /\ Len(file) = 1 + n_seq
                   /\ \A i \in 1..n_seq :
                         LET fields == Split(file[i + 1], call.sep) IN
                         /\ Len(fields) = 1 + n_mot + (IF call.include_sum THEN 1 ELSE 0)
                         /\ fields[1] = result.seq_ids[i]
              ELSE /\ Len(file) = 1 + n_seq * n_mot
                   /\ \A k \in 1..(n_seq * n_mot) :
                         LET fields == Split(file[k + 1], call.sep) IN
                         /\ Len(fields) = 3
                         /\ fields[1] = result.seq_ids[((k - 1) \div n_mot) + 1]
                         /\ fields[2] = result.motifs[((k - 1) % n_mot) + 1]

\* C24: the table of a report holds the rows of the first
\* min(len(seq_ids), table_max_rows) sequences in order, and the notice
\* follows them iff len(seq_ids) > table_max_rows.
C24_TableCappedWithNotice ==
    (WroteTable /\ x_call.val.fn = "export_report" /\ x_call.val.include_table)
       => LET result == e_result.val
              call == x_call.val
              file == x_out.file.val
              cap == call.table_max_rows
              n == IF Len(result.seq_ids) < cap THEN Len(result.seq_ids) ELSE cap
              header == Join(<< << "Sekwencja" >> >> \o result.motifs \o << << "SUMA" >> >>, "\t")
              notice == << "... (ucieto do " >> \o Digits(cap) \o << " wierszy)" >>
              after == IF call.fmt = "html" THEN << << "</pre>" >>, << "</body></html>" >> >>
                       ELSE <<>>
          IN  \E h \in 1..Len(file) :
                 /\ file[h] = header
                 /\ \A k \in 1..Len(file) : file[k] = header => k = h
                 /\ Len(file) >= h + n
                 /\ \A i \in 1..n :
                       LET fields == Split(file[h + i], "\t") IN
                       /\ Len(fields) = Len(result.motifs) + 2
                       /\ fields[1] = result.seq_ids[i]
                 /\ SubSeq(file, h + n + 1, Len(file))
                       = (IF Len(result.seq_ids) > cap THEN << notice >> ELSE <<>>) \o after

\* a report of two sequences under the cap 1: one row, then the notice
C24_Witness ==
    /\ WroteTable
    /\ x_call.val.fn = "export_report"
    /\ x_call.val.include_table
    /\ x_call.val.table_max_rows = 1
    /\ Len(e_result.val.seq_ids) = 2
    /\ x_out.file.val[Len(x_out.file.val)] = << "... (ucieto do ", "1", " wierszy)" >>

\* C30: for every mode for which matrix returns the raw counts the export
\* functions render integers, and for every mode for which it returns the
\* normalized values they render one decimal digit.
C30_FormatAgreesWithMatrix ==
    (WroteTable /\ x_call.val.fn \in { "export_results_csv", "export_report" })
       => LET mode == x_call.val.mode
              mode_l == StrLower(IF mode = None \/ mode.val = <<>> THEN mode_raw ELSE mode.val)
          IN  OutputRendersMode(mode_l)

\* C29: the export tab writes only while the application holds a result,
\* and what it writes is export_results_csv or export_report of exactly
\* that result under the options the tab shows.
C29_ExportNeedsResult ==
    [][(x_call' # x_call \/ x_out' # x_out)
       => /\ analysis_result # None
          /\ x_call' # None
          /\ x_out' = IF x_call'.val.fn = "export_results_csv"
                       THEN export_results_csv(analysis_result, x_sep, Some(x_mode),
                                               x_layout, TRUE)
                       ELSE export_report(analysis_result, Some(x_rep_mode), x_rep_fmt,
                                          x_rep_table, table_max_rows_default)]_vars

\* a results file was written, and afterwards the result was set to
\* absent: from here on no export writes
C29_Witness ==
    /\ x_call # None
    /\ x_call.val.fn = "export_results_csv"
    /\ x_out.status = "ok"
    /\ x_out.file # None
    /\ analysis_result = None
    /\ sequences # <<>>


====
